---- MODULE Spec2Model ----
(***************************************************************************)
(* The link checker of scripts/check_urls.py: configuration resolution,   *)
(* directory scan, URL extraction, validity filter, rewriting, the        *)
(* concurrent check over a thread pool, and the report.                   *)
(* The Cupcake class of cupcake-py/python/cupcake/__init__.py is modelled  *)
(* beside it, in SpecEngine.                                               *)
(*                                                                         *)
(* A Python str is a sequence of one-character strings, so that           *)
(* startswith, in, split, replace, lower and sorted are computed          *)
(* character by character, as the interpreter does.                       *)
(***************************************************************************)
EXTENDS Integers, Sequences, FiniteSets, TLC

(* ------------------------------------------------------------------ *)
(* Bounds of the model                                                 *)
(* ------------------------------------------------------------------ *)

\* Largest number of files in the scanned tree.
MaxFiles == 2

\* Largest --workers value tried (0 is tried too: the pool rejects it).
MaxWorkers == 2

\* Largest number of files handed to extract_all_urls in SpecExtract.
MaxScanned == 2

\* Largest number of files in a tree of SpecScan.
MaxTree == 2

\* Largest number of calls made on the Cupcake instance in SpecEngine.
MaxCalls == 4

(* ------------------------------------------------------------------ *)
(* Python str operations                                               *)
(* ------------------------------------------------------------------ *)

\* The characters that occur, in code point order (for str comparison).
CodePoints ==
    << " ", ",", ".", "/", "0", "1", "2", "7", "8", ":", "@", "B", "E", "H",
       "L", "_",
       "a", "b", "c", "d", "e", "g", "h", "i", "k", "l", "m", "n", "o", "p",
       "r", "s", "t", "u", "v", "w", "x", "y" >>

ord(c) == CHOOSE i \in 1..Len(CodePoints) : CodePoints[i] = c

lower_char(c) ==
    CASE c = "B" -> "b"
      [] c = "E" -> "e"
      [] c = "H" -> "h"
      [] c = "L" -> "l"
      [] OTHER -> c

\* str.lower()
lower(s) == [i \in 1..Len(s) |-> lower_char(s[i])]

\* str.startswith(p)
startswith(s, p) ==
    Len(s) >= Len(p) /\ \A k \in 1..Len(p) : s[k] = p[k]

\* str.endswith(p)
endswith(s, p) ==
    Len(s) >= Len(p) /\ \A k \in 1..Len(p) : s[Len(s) - Len(p) + k] = p[k]

\* sub occurs in s at index i (1-based)
occurs_at(s, sub, i) ==
    /\ i + Len(sub) - 1 <= Len(s)
    /\ \A k \in 1..Len(sub) : s[i + k - 1] = sub[k]

\* `sub in s`
contains(s, sub) == \E i \in 1..(Len(s) + 1) : occurs_at(s, sub, i)

\* index of the first occurrence of sub in s (sub occurs in s)
find(s, sub) ==
    CHOOSE i \in 1..(Len(s) + 1) :
        occurs_at(s, sub, i) /\ \A k \in 1..(i - 1) : ~occurs_at(s, sub, k)

\* s.split(sep)[0]
split_head(s, sep) ==
    IF contains(s, sep) THEN SubSeq(s, 1, find(s, sep) - 1) ELSE s

\* s.split(sep, 1)[1]  (sep occurs in s)
split_tail(s, sep) == SubSeq(s, find(s, sep) + Len(sep), Len(s))

\* s < t in Python's str order
RECURSIVE str_less(_, _)
str_less(s, t) ==
    IF t = <<>> THEN FALSE
    ELSE IF s = <<>> THEN TRUE
    ELSE IF s[1] # t[1] THEN ord(s[1]) < ord(t[1])
    ELSE str_less(Tail(s), Tail(t))

\* sorted(S) for a set of str
RECURSIVE sorted(_)
sorted(S) ==
    IF S = {} THEN <<>>
    ELSE LET m == CHOOSE x \in S : \A y \in S \ {x} : str_less(x, y)
         IN <<m>> \o sorted(S \ {m})

\* s.strip() (the only whitespace that occurs is the space)
RECURSIVE lstrip(_)
lstrip(s) == IF s # <<>> /\ s[1] = " " THEN lstrip(Tail(s)) ELSE s

RECURSIVE rstrip(_)
rstrip(s) ==
    IF s # <<>> /\ s[Len(s)] = " " THEN rstrip(SubSeq(s, 1, Len(s) - 1)) ELSE s

strip(s) == rstrip(lstrip(s))

\* s.split(',')
RECURSIVE split_commas(_)
split_commas(s) ==
    IF contains(s, <<",">>)
    THEN <<split_head(s, <<",">>)>> \o split_commas(split_tail(s, <<",">>))
    ELSE <<s>>

\* the elements of a sequence
Range(q) == {q[i] : i \in 1..Len(q)}

(* ------------------------------------------------------------------ *)
(* String literals of the source                                       *)
(* ------------------------------------------------------------------ *)

s_http == <<"h","t","t","p",":","/","/">>
s_https == <<"h","t","t","p","s",":","/","/">>
s_scheme_sep == <<":","/","/">>
s_localhost == <<"l","o","c","a","l","h","o","s","t">>
s_loopback == <<"1","2","7",".","0",".","0",".","1">>
s_anyaddr == <<"0",".","0",".","0",".","0">>
s_example_com == <<"e","x","a","m","p","l","e",".","c","o","m">>
s_example_org == <<"e","x","a","m","p","l","e",".","o","r","g">>

(* ------------------------------------------------------------------ *)
(* URLChecker                                                          *)
(* ------------------------------------------------------------------ *)

\* URLChecker.get_domain
get_domain(url) ==
    LET rest == IF contains(url, s_scheme_sep)
                THEN split_tail(url, s_scheme_sep) ELSE url
        host == split_head(rest, <<"/">>)
    IN lower(split_head(host, <<":">>))

\* the patterns of the two hard-wired filters of is_valid_url
LOCAL_PATTERNS == {s_localhost, s_loopback, s_anyaddr}
PLACEHOLDER_DOMAINS == {s_example_com, s_example_org}

\* is_valid_url without its skip-domain test
is_valid_url_without_skip_domains(url, config) ==
    IF ~(startswith(url, s_http) \/ startswith(url, s_https)) THEN FALSE
    ELSE IF \E pattern \in {s_localhost, s_loopback, s_anyaddr} :
                contains(lower(url), pattern)
    THEN FALSE
    ELSE IF \E domain \in {s_example_com, s_example_org} :
                contains(lower(url), domain)
    THEN FALSE
    ELSE IF config.skip_urls # {}
            /\ \E skip_url \in config.skip_urls : contains(url, skip_url)
    THEN FALSE
    ELSE TRUE

\* is_valid_url without its skip-urls test
is_valid_url_without_skip_urls(url, config) ==
    IF ~(startswith(url, s_http) \/ startswith(url, s_https)) THEN FALSE
    ELSE IF \E pattern \in {s_localhost, s_loopback, s_anyaddr} :
                contains(lower(url), pattern)
    THEN FALSE
    ELSE IF \E domain \in {s_example_com, s_example_org} :
                contains(lower(url), domain)
    THEN FALSE
    ELSE IF config.skip_domains # {}
            /\ \E skip \in config.skip_domains : contains(get_domain(url), skip)
    THEN FALSE
    ELSE TRUE

\* URLChecker.is_valid_url
is_valid_url(url, config) ==
    IF ~(startswith(url, s_http) \/ startswith(url, s_https)) THEN FALSE
    ELSE IF \E pattern \in LOCAL_PATTERNS : contains(lower(url), pattern)
    THEN FALSE
    ELSE IF \E domain \in PLACEHOLDER_DOMAINS : contains(lower(url), domain)
    THEN FALSE
    ELSE IF config.skip_domains # {}
            /\ \E skip \in config.skip_domains : contains(get_domain(url), skip)
    THEN FALSE
    ELSE IF config.skip_urls # {}
            /\ \E skip_url \in config.skip_urls : contains(url, skip_url)
    THEN FALSE
    ELSE TRUE

(* str.replace, on characters that remember where they came from: a    *)
(* character is [c |-> the character, t |-> 0 when it is a character   *)
(* of the extracted URL, j when the j-th replacement pair wrote it].   *)
(* The tag is bookkeeping only: matching reads the characters alone.   *)

tagged(s, j) == [i \in 1..Len(s) |-> [c |-> s[i], t |-> j]]

chars(ts) == [i \in 1..Len(ts) |-> ts[i].c]

\* the starts of the non-overlapping occurrences of old (non-empty) that
\* str.replace finds scanning s from index i, left to right
RECURSIVE match_starts(_, _, _)
match_starts(s, old, i) ==
    IF i + Len(old) - 1 > Len(s) THEN {}
    ELSE IF occurs_at(s, old, i)
    THEN {i} \cup match_starts(s, old, i + Len(old))
    ELSE match_starts(s, old, i + 1)

RECURSIVE replace_build(_, _, _, _, _)
replace_build(ts, starts, n, new, i) ==
    IF i > Len(ts) THEN <<>>
    ELSE IF i \in starts
    THEN new \o replace_build(ts, starts, n, new, i + n)
    ELSE <<ts[i]>> \o replace_build(ts, starts, n, new, i + 1)

\* ''.join with new around every character: s.replace('', new)
RECURSIVE replace_empty(_, _)
replace_empty(ts, new) ==
    IF ts = <<>> THEN new
    ELSE new \o <<ts[1]>> \o replace_empty(Tail(ts), new)

\* url.replace(old, new), the written characters tagged j
str_replace(ts, old, new, j) ==
    IF old = <<>> THEN replace_empty(ts, tagged(new, j))
    ELSE replace_build(ts, match_starts(chars(ts), old, 1), Len(old),
                       tagged(new, j), 1)

\* the tags of the written characters that url.replace(old, ...) of pair
\* j consumes: <<i, j>> when it replaces text that pair i wrote
str_replace_eats(ts, old, j) ==
    IF old = <<>> THEN {}
    ELSE {<<ts[k].t, j>> :
            k \in {k \in 1..Len(ts) :
                     /\ ts[k].t # 0
                     /\ \E m \in match_starts(chars(ts), old, 1) :
                            m <= k /\ k < m + Len(old)}}

\* a loop that goes over the pairs a second time
replacement_passes_twice(replacements) ==
    [j \in 1..(2 * Len(replacements)) |->
        IF j <= Len(replacements) THEN j ELSE j - Len(replacements)]

\* the pairs the for loop of apply_replacements visits, in order: the
\* items of the dict, once each
replacement_passes(replacements) == [j \in 1..Len(replacements) |-> j]

\* the loop of apply_replacements from its k-th iteration on
RECURSIVE sweep(_, _, _, _)
sweep(ts, replacements, passes, k) ==
    IF k > Len(passes) THEN ts
    ELSE LET pair == replacements[passes[k]]
         IN sweep(str_replace(ts, pair.from, pair.to, passes[k]),
                  replacements, passes, k + 1)

RECURSIVE sweep_eats(_, _, _, _)
sweep_eats(ts, replacements, passes, k) ==
    IF k > Len(passes) THEN {}
    ELSE LET pair == replacements[passes[k]]
         IN str_replace_eats(ts, pair.from, passes[k])
            \cup sweep_eats(str_replace(ts, pair.from, pair.to, passes[k]),
                            replacements, passes, k + 1)

\* URLChecker.apply_replacements
apply_replacements(url, config) ==
    chars(sweep(tagged(url, 0), config.replacements,
                replacement_passes(config.replacements), 1))

\* what apply_replacements(url) re-substitutes on its way
resubstitutions(url, config) ==
    sweep_eats(tagged(url, 0), config.replacements,
               replacement_passes(config.replacements), 1)

\* the except clauses of check_url, by the classes of urllib and builtins
exception_bases(exc) ==
    IF exc = "HTTPError" THEN {"HTTPError", "URLError", "OSError", "Exception"}
    ELSE IF exc = "URLError" THEN {"URLError", "OSError", "Exception"}
    ELSE IF exc = "TimeoutError" THEN {"TimeoutError", "OSError", "Exception"}
    ELSE {exc, "Exception"}

isinstance(exc, class) == class \in exception_bases(exc)

\* what urlopen does for one URL: it returns a response with a status, or
\* raises (an HTTPError carries the code)
Response(status) == [kind |-> "response", status |-> status, exc |-> ""]
Raises(exc, code) == [kind |-> "raise", status |-> code, exc |-> exc]

\* check_url with the HTTPError and URLError clauses only
check_url_without_catch_all(outcome) ==
    IF outcome.kind = "response"
    THEN [raised |-> FALSE,
          success |-> (200 <= outcome.status /\ outcome.status < 400),
          status |-> outcome.status, detail |-> ""]
    ELSE IF isinstance(outcome.exc, "HTTPError")
    THEN [raised |-> FALSE, success |-> FALSE, status |-> outcome.status,
          detail |-> "HTTP"]
    ELSE IF isinstance(outcome.exc, "URLError")
    THEN [raised |-> FALSE, success |-> FALSE, status |-> 0,
          detail |-> "URL Error"]
    ELSE [raised |-> TRUE, success |-> FALSE, status |-> 0,
          detail |-> outcome.exc]

\* check_url with the URLError clause written before the HTTPError clause
check_url_clauses_swapped(outcome) ==
    IF outcome.kind = "response"
    THEN [raised |-> FALSE,
          success |-> (200 <= outcome.status /\ outcome.status < 400),
          status |-> outcome.status, detail |-> ""]
    ELSE IF isinstance(outcome.exc, "URLError")
    THEN [raised |-> FALSE, success |-> FALSE, status |-> 0,
          detail |-> "URL Error"]
    ELSE IF isinstance(outcome.exc, "HTTPError")
    THEN [raised |-> FALSE, success |-> FALSE, status |-> outcome.status,
          detail |-> "HTTP"]
    ELSE [raised |-> FALSE, success |-> FALSE, status |-> 0,
          detail |-> "Error"]

\* URLChecker.check_url, given what urlopen does: (success, status, detail),
\* or the exception when no except clause takes it
check_url(outcome) ==
    IF outcome.kind = "response"
    THEN [raised |-> FALSE,
          success |-> (200 <= outcome.status /\ outcome.status < 400),
          status |-> outcome.status, detail |-> ""]
    ELSE IF isinstance(outcome.exc, "HTTPError")
    THEN [raised |-> FALSE, success |-> FALSE, status |-> outcome.status,
          detail |-> "HTTP"]
    ELSE IF isinstance(outcome.exc, "URLError")
    THEN [raised |-> FALSE, success |-> FALSE, status |-> 0,
          detail |-> "URL Error"]
    ELSE IF isinstance(outcome.exc, "Exception")
    THEN [raised |-> FALSE, success |-> FALSE, status |-> 0,
          detail |-> "Error"]
    ELSE [raised |-> TRUE, success |-> FALSE, status |-> 0,
          detail |-> outcome.exc]

(* ------------------------------------------------------------------ *)
(* Config                                                              *)
(* ------------------------------------------------------------------ *)

\* an option or environment variable that is not given
None == <<"None">>

\* os.environ.get(name, '')
environ_get(value) == IF value = None THEN <<>> ELSE value

\* `if value:` for a str or None
truthy(value) == value # None /\ value # <<>>

\* [x.strip() for x in value.split(',') if x.strip()]
csv_entries(value) ==
    LET parts == split_commas(value)
        stripped == [i \in 1..Len(parts) |-> strip(parts[i])]
        nonempty(x) == x # <<>>
    IN SelectSeq(stripped, nonempty)

\* a pattern list to which each source adds its entries, as to a skip
\* list
parse_patterns_combining(arg_value, env_value, default) ==
    LET env_patterns == strip(environ_get(env_value))
        from_env == IF env_patterns # <<>>
                    THEN csv_entries(env_patterns) ELSE default
    IN IF truthy(arg_value) THEN from_env \o csv_entries(arg_value) ELSE from_env

\* Config._parse_patterns
parse_patterns(arg_value, env_value, default) ==
    LET env_patterns == strip(environ_get(env_value))
        from_env == IF env_patterns # <<>>
                    THEN csv_entries(env_patterns) ELSE default
    IN IF truthy(arg_value) THEN csv_entries(arg_value) ELSE from_env

\* a skip list that the command-line option replaces, as it does a
\* pattern list
parse_skip_overriding(arg_value, env_value) ==
    LET env_skip == strip(environ_get(env_value))
        from_env == IF env_skip # <<>> THEN Range(csv_entries(env_skip)) ELSE {}
    IN IF truthy(arg_value) THEN Range(csv_entries(arg_value)) ELSE from_env

\* Config._parse_skip_urls and Config._parse_skip_files
parse_skip(arg_value, env_value) ==
    LET env_skip == strip(environ_get(env_value))
        from_env == IF env_skip # <<>> THEN Range(csv_entries(env_skip)) ELSE {}
    IN IF truthy(arg_value)
       THEN from_env \cup Range(csv_entries(arg_value)) ELSE from_env

\* Config._parse_skip_domains
parse_skip_domains(arg_value, env_value) ==
    {lower(d) : d \in parse_skip(arg_value, env_value)}

(* The text of a replacement mapping, by what json.loads makes of it:   *)
(* kind "none" (not given), "empty" (''), "spaces" (whitespace only),   *)
(* "malformed" (JSONDecodeError), "scalar" (valid JSON that dict.update *)
(* rejects with a TypeError, such as 1 or null), "object" (its pairs in *)
(* the order of the text).                                              *)
JsonText(kind, pairs) == [kind |-> kind, pairs |-> pairs]

Pair(from, to) == [from |-> from, to |-> to]

\* an update in which a key that is present keeps its value
RECURSIVE dict_update_keeping_values(_, _)
dict_update_keeping_values(d, pairs) ==
    IF pairs = <<>> THEN d
    ELSE LET p == pairs[1]
             d1 == IF \E i \in 1..Len(d) : d[i].from = p.from
                   THEN d ELSE Append(d, p)
         IN dict_update_keeping_values(d1, Tail(pairs))

\* an update in which a key that is present moves to the end
RECURSIVE dict_update_moving_to_end(_, _)
dict_update_moving_to_end(d, pairs) ==
    IF pairs = <<>> THEN d
    ELSE LET p == pairs[1]
             other(q) == q.from # p.from
         IN dict_update_moving_to_end(Append(SelectSeq(d, other), p), Tail(pairs))

\* dict.update: a key that is present keeps its place and takes the new
\* value, a new key goes last
RECURSIVE dict_update(_, _)
dict_update(d, pairs) ==
    IF pairs = <<>> THEN d
    ELSE LET p == pairs[1]
             at == {i \in 1..Len(d) : d[i].from = p.from}
             d1 == IF at = {} THEN Append(d, p)
                   ELSE [i \in 1..Len(d) |-> IF i \in at THEN p ELSE d[i]]
         IN dict_update(d1, Tail(pairs))

\* the try block around json.loads and replacements.update for one source
\* whose text is not skipped
load_replacements(text, replacements) ==
    IF text.kind = "object"
    THEN [status |-> "ok", replacements |-> dict_update(replacements, text.pairs)]
    ELSE IF text.kind = "scalar"
    THEN [status |-> "raise", replacements |-> replacements]
    ELSE [status |-> "exit", replacements |-> replacements]

\* _parse_replacements that reports a JSON error and carries on
parse_replacements_lenient(arg_value, env_value) ==
    LET from_env == IF env_value.kind = "object"
                    THEN dict_update(<<>>, env_value.pairs) ELSE <<>>
    IN [status |-> "ok",
        replacements |-> IF arg_value.kind = "object"
                         THEN dict_update(from_env, arg_value.pairs)
                         ELSE from_env]

\* Config._parse_replacements: status "ok", "exit" (sys.exit(1) after the
\* message) or "raise" (an exception that nothing catches)
parse_replacements(arg_value, env_value) ==
    LET from_env == IF env_value.kind \in {"none", "empty", "spaces"}
                    THEN [status |-> "ok", replacements |-> <<>>]
                    ELSE load_replacements(env_value, <<>>)
    IN IF from_env.status # "ok" THEN from_env
       ELSE IF arg_value.kind \in {"none", "empty"} THEN from_env
       ELSE load_replacements(arg_value, from_env.replacements)

s_md == <<".","m","d">>
s_markdown == <<".","m","a","r","k","d","o","w","n">>
s_html == <<".","h","t","m","l">>
s_htm == <<".","h","t","m">>

\* Config.__init__ once the replacements are parsed. directory is the
\* tree, timeout is passed to urlopen and verbose chooses between two
\* print calls: none of them is read by a branch of the run.
Config(args, environ, replacements) ==
    [workers |-> args.workers,
     replacements |-> replacements,
     skip_domains |-> parse_skip_domains(args.skip_domains, environ.SKIP_DOMAINS),
     skip_urls |-> parse_skip(args.skip_urls, environ.SKIP_URLS),
     skip_files |-> parse_skip(args.skip_files, environ.SKIP_FILES),
     markdown_patterns |->
        parse_patterns(args.markdown_patterns, environ.MARKDOWN_PATTERNS,
                       <<s_md, s_markdown>>),
     html_patterns |->
        parse_patterns(args.html_patterns, environ.HTML_PATTERNS,
                       <<s_html, s_htm>>),
     file_patterns |->
        parse_patterns(args.file_patterns, environ.FILE_PATTERNS, <<>>)]

(* ------------------------------------------------------------------ *)
(* URLExtractor                                                        *)
(* ------------------------------------------------------------------ *)

\* URLExtractor.EXCLUDE_PATTERNS
EXCLUDE_PATTERNS ==
    { <<"n","o","d","e","_","m","o","d","u","l","e","s">>,
      <<".","g","i","t">>,
      <<"_","_","p","y","c","a","c","h","e","_","_">>,
      <<"t","a","r","g","e","t">>,
      <<"d","i","s","t">>,
      <<"b","u","i","l","d">>,
      <<".","v","e","n","v">>,
      <<"v","e","n","v">> }

(* The content of a file is the sequence of the links written in it.    *)
(* A link is [kind, url]: "mdlink" is [label](url), "refdef" is         *)
(* [label]: url at the start of a line, "bare" is the URL alone in the  *)
(* text, "href" and "src" are the HTML attributes. The URLs hold none   *)
(* of the characters at which the patterns stop.                        *)
Link(kind, url) == [kind |-> kind, url |-> url]

\* what the pattern https?:// accepts at the start of a URL
is_absolute(url) == startswith(url, s_http) \/ startswith(url, s_https)

\* the URLs of the links of content that pass Test, in order
urls_where(content, Test(_)) ==
    LET hits == SelectSeq(content, Test)
    IN [i \in 1..Len(hits) |-> hits[i].url]

\* URLExtractor.extract_from_markdown: the three findall calls in turn.
\* The plain-URL pattern finds every absolute URL of the text, those
\* inside a link or an attribute included.
extract_from_markdown(content) ==
    LET markdown_link(l) == l.kind = "mdlink"
        reference_link(l) == l.kind = "refdef"
        plain_url(l) == is_absolute(l.url)
    IN urls_where(content, markdown_link)
       \o urls_where(content, reference_link)
       \o urls_where(content, plain_url)

\* URLExtractor.extract_from_html: both patterns are compiled with
\* re.IGNORECASE, so the scheme is accepted in any case
extract_from_html(content) ==
    LET href_url(l) == l.kind = "href" /\ is_absolute(lower(l.url))
        src_url(l) == l.kind = "src" /\ is_absolute(lower(l.url))
    IN urls_where(content, href_url) \o urls_where(content, src_url)

(* The tree under the root is the sequence of its files in the order   *)
(* os.walk meets them: [dirs |-> the directory names from the root to   *)
(* the file, name, readable, content].                                  *)
TreeFile(dirs, name, readable, content) ==
    [dirs |-> dirs, name |-> name, readable |-> readable, content |-> content]

\* the directory path p leads to, or is, the directory path q
is_prefix(p, q) == Len(p) <= Len(q) /\ \A k \in 1..Len(p) : p[k] = q[k]

\* the order in which os.walk (top-down) can meet the files of a tree:
\* no path twice, the files of a directory before those of the
\* directories below it, and a directory walked to its end before the
\* next one is entered
os_walk_order(tree_files) ==
    \A i, j \in 1..Len(tree_files) :
        i < j =>
          /\ <<tree_files[i].dirs, tree_files[i].name>>
                # <<tree_files[j].dirs, tree_files[j].name>>
          /\ ~(/\ tree_files[j].dirs # tree_files[i].dirs
               /\ is_prefix(tree_files[j].dirs, tree_files[i].dirs))
          /\ \A n \in 1..Len(tree_files[i].dirs) :
                is_prefix(SubSeq(tree_files[i].dirs, 1, n), tree_files[j].dirs)
                   => \A m \in i..j :
                         is_prefix(SubSeq(tree_files[i].dirs, 1, n),
                                   tree_files[m].dirs)

\* a walk that prunes the excluded names among the directories of the
\* root only
pruned_below_root_only(f) == f.dirs # <<>> /\ f.dirs[1] \in EXCLUDE_PATTERNS

\* the file lies under a directory that the walk prunes
pruned(f) == \E k \in 1..Len(f.dirs) : f.dirs[k] \in EXCLUDE_PATTERNS

\* the pattern loops with the html list tried first
file_type_of_html_first(filename, markdown_patterns, html_patterns, file_patterns) ==
    IF \E k \in 1..Len(html_patterns) : endswith(filename, html_patterns[k])
    THEN "html"
    ELSE IF \E k \in 1..Len(markdown_patterns) :
                endswith(filename, markdown_patterns[k])
    THEN "markdown"
    ELSE IF \E k \in 1..Len(file_patterns) : endswith(filename, file_patterns[k])
    THEN "file"
    ELSE ""

\* the three pattern loops of scan_directory: the file type, or "" when
\* no pattern matches
file_type_of(filename, markdown_patterns, html_patterns, file_patterns) ==
    IF \E k \in 1..Len(markdown_patterns) : endswith(filename, markdown_patterns[k])
    THEN "markdown"
    ELSE IF \E k \in 1..Len(html_patterns) : endswith(filename, html_patterns[k])
    THEN "html"
    ELSE IF \E k \in 1..Len(file_patterns) : endswith(filename, file_patterns[k])
    THEN "file"
    ELSE ""

\* the way to open() without the skip-files test
is_opened_ignoring_skip_files(f, config) ==
    /\ ~pruned(f)
    /\ file_type_of(f.name, config.markdown_patterns, config.html_patterns,
                    config.file_patterns) # ""

\* the file reaches the open() call of scan_directory
is_opened(f, config) ==
    /\ ~pruned(f)
    /\ file_type_of(f.name, config.markdown_patterns, config.html_patterns,
                    config.file_patterns) # ""
    /\ ~(config.skip_files # {} /\ f.name \in config.skip_files)

ScannedFile(path, content, file_type) ==
    [path |-> path, content |-> content, file_type |-> file_type]

\* a scan that ends at the first file it cannot read
RECURSIVE scan_directory_ending_at_read_error(_, _)
scan_directory_ending_at_read_error(tree_files, config) ==
    IF tree_files = <<>> THEN <<>>
    ELSE LET f == tree_files[1]
             rest == scan_directory_ending_at_read_error(Tail(tree_files), config)
         IN IF ~is_opened(f, config) THEN rest
            ELSE IF ~f.readable THEN <<>>
            ELSE <<ScannedFile(<<f.dirs, f.name>>, f.content,
                       file_type_of(f.name, config.markdown_patterns,
                                    config.html_patterns, config.file_patterns))>>
                 \o rest

\* URLExtractor.scan_directory
RECURSIVE scan_directory(_, _)
scan_directory(tree_files, config) ==
    IF tree_files = <<>> THEN <<>>
    ELSE LET f == tree_files[1]
             rest == scan_directory(Tail(tree_files), config)
         IN IF is_opened(f, config) /\ f.readable
            THEN <<ScannedFile(<<f.dirs, f.name>>, f.content,
                       file_type_of(f.name, config.markdown_patterns,
                                    config.html_patterns, config.file_patterns))>>
                 \o rest
            ELSE rest

\* the paths scan_directory opens, in order
opened_by_scan(tree_files, config) ==
    LET opens(f) == is_opened(f, config)
        hits == SelectSeq(tree_files, opens)
    IN [i \in 1..Len(hits) |-> <<hits[i].dirs, hits[i].name>>]

(* ------------------------------------------------------------------ *)
(* URLCheckRunner.extract_all_urls                                     *)
(* ------------------------------------------------------------------ *)

\* the URLs extracted from one scanned file
extracted_urls(file) ==
    IF file.file_type = "markdown" THEN extract_from_markdown(file.content)
    ELSE IF file.file_type = "html" THEN extract_from_html(file.content)
    ELSE extract_from_markdown(file.content) \o extract_from_html(file.content)

\* the raw URLs in the order the two nested loops meet them, each with
\* the file it was found in
RECURSIVE raw_occurrences(_)
raw_occurrences(files) ==
    IF files = <<>> THEN <<>>
    ELSE LET urls == extracted_urls(files[1])
         IN [i \in 1..Len(urls) |-> [url |-> urls[i], path |-> files[1].path]]
            \o raw_occurrences(Tail(files))

\* the inner loop body with the filter applied to the rewritten URL
add_url_filter_after(acc, occ, config) ==
    LET replaced_url == apply_replacements(occ.url, config)
    IN IF is_valid_url(replaced_url, config)
       THEN [all_urls |-> acc.all_urls \cup {replaced_url},
             url_sources |->
                IF replaced_url \in DOMAIN acc.url_sources
                THEN [acc.url_sources EXCEPT ![replaced_url] = Append(@, occ.path)]
                ELSE acc.url_sources @@ (replaced_url :> <<occ.path>>)]
       ELSE acc

\* a loop body that lists a file once per canonical URL
add_url_once_per_file(acc, occ, config) ==
    IF is_valid_url(occ.url, config)
    THEN LET replaced_url == apply_replacements(occ.url, config)
         IN [all_urls |-> acc.all_urls \cup {replaced_url},
             url_sources |->
                IF replaced_url \in DOMAIN acc.url_sources
                THEN IF occ.path \in Range(acc.url_sources[replaced_url])
                     THEN acc.url_sources
                     ELSE [acc.url_sources EXCEPT
                              ![replaced_url] = Append(@, occ.path)]
                ELSE acc.url_sources @@ (replaced_url :> <<occ.path>>)]
    ELSE acc

\* a loop body that files the path under the raw URL
add_url_keyed_by_raw_url(acc, occ, config) ==
    IF is_valid_url(occ.url, config)
    THEN LET replaced_url == apply_replacements(occ.url, config)
         IN [all_urls |-> acc.all_urls \cup {replaced_url},
             url_sources |->
                IF occ.url \in DOMAIN acc.url_sources
                THEN [acc.url_sources EXCEPT ![occ.url] = Append(@, occ.path)]
                ELSE acc.url_sources @@ (occ.url :> <<occ.path>>)]
    ELSE acc

\* the body of the inner loop for one raw URL
add_url(acc, occ, config) ==
    IF is_valid_url(occ.url, config)
    THEN LET replaced_url == apply_replacements(occ.url, config)
         IN [all_urls |-> acc.all_urls \cup {replaced_url},
             url_sources |->
                IF replaced_url \in DOMAIN acc.url_sources
                THEN [acc.url_sources EXCEPT ![replaced_url] = Append(@, occ.path)]
                ELSE acc.url_sources @@ (replaced_url :> <<occ.path>>)]
    ELSE acc

RECURSIVE add_urls(_, _, _)
add_urls(acc, occs, config) ==
    IF occs = <<>> THEN acc
    ELSE add_urls(add_url(acc, occs[1], config), Tail(occs), config)

\* URLCheckRunner.extract_all_urls
extract_all_urls(files, config) ==
    add_urls([all_urls |-> {}, url_sources |-> <<>>],
             raw_occurrences(files), config)

\* every re-substitution that the calls of apply_replacements made
all_resubstitutions(files, config) ==
    LET occs == raw_occurrences(files)
    IN UNION {resubstitutions(occs[i].url, config) :
                i \in {i \in 1..Len(occs) : is_valid_url(occs[i].url, config)}}

(* ------------------------------------------------------------------ *)
(* The run: main, Config, URLCheckRunner.run                           *)
(* ------------------------------------------------------------------ *)

VARIABLES
    environ,       \* the environment variables of the process
    args,          \* the parsed command line
    tree,          \* the directory: [exists, files]
    network,       \* what urlopen does for each canonical URL of this run
    pc,            \* where the main thread is
    config,        \* the Config object
    files,         \* the result of scan_directory
    all_urls,      \* the canonical URL set
    url_sources,   \* canonical URL -> the files it was found in
    urls_list,     \* sorted(urls) in check_urls_parallel
    task,          \* per submitted URL: "new", "queued", "running", "finished"
    result,        \* per finished task: what check_single_url returned
    yielded,       \* the futures as_completed has handed to the loop
    checked,       \* the counter of check_urls_parallel
    broken_links,  \* the list check_urls_parallel builds
    report,        \* the blocks print_results prints, one per broken link
    stdout,        \* what was printed to the output stream, by kind
    stderr,        \* what was printed to the error stream, by kind
    exit_code,     \* the exit status of the process, -1 while it runs
    walked,        \* os.walk was called
    opened,        \* the paths passed to open()
    attempts,      \* canonical URL -> number of urlopen calls made for it
    resubstituted, \* <<i, j>>: pair j replaced text that pair i had written
    engine,        \* cupcake-py: the _engine field of the Cupcake instance
    project_path,  \* cupcake-py: its _project_path field
    init_task,     \* cupcake-py: the init_async coroutine in progress
    eval_task,     \* cupcake-py: the eval_async coroutine in progress
    calls,         \* cupcake-py: the calls that returned or raised, in order
    evaluations,   \* cupcake-py: how often the native evaluate was called
    initialized    \* cupcake-py: how many init and init_async calls succeeded

vars ==
    << environ, args, tree, network, pc, config, files, all_urls, url_sources,
       urls_list, task, result, yielded, checked, broken_links, report,
       stdout, stderr, exit_code, walked, opened, attempts, resubstituted,
       engine, project_path, init_task, eval_task, calls, evaluations,
       initialized >>

\* the instance of the policy engine binding, which the link checker
\* never touches
binding == << engine, project_path, init_task, eval_task, calls, evaluations,
             initialized >>

world == << environ, args, tree, binding >>
scan_state == << files, walked, opened >>
extract_state == << all_urls, url_sources, resubstituted >>
pool_state == << network, urls_list, task, result, yielded, checked,
                 broken_links, attempts >>

(* ---- cupcake-py: the Cupcake class ---- *)

\* the object the native constructor PolicyEngine(path) returns; what its
\* is_ready method answers is the native module's matter
PolicyEngine(ready) == <<"PolicyEngine", ready>>

\* a path argument: whether it exists and whether its last component is
\* .cupcake
Path(exists, name) == [exists |-> exists, name |-> name]

\* what the native constructor does: [ok, ready]
Built(ok, ready) == [ok |-> ok, ready |-> ready]

\* a call that returned or raised
Call(op, raised, value) == [op |-> op, raised |-> raised, value |-> value]

\* Cupcake._resolve_path: a missing directory is created when it is a
\* .cupcake directory and is an error otherwise
resolve_path(path) ==
    IF ~path.exists /\ path.name # ".cupcake"
    THEN [raised |-> "RuntimeError", resolved |-> None]
    ELSE [raised |-> "none", resolved |-> path.name]

\* Cupcake.init: [raised, assigns, engine, project_path]; an exception
\* leaves the fields as they were
init(path, opa_installed, built) ==
    LET failure == [raised |-> "RuntimeError", assigns |-> FALSE,
                    engine |-> None, project_path |-> None]
    IN IF ~opa_installed THEN failure
       ELSE IF resolve_path(path).raised # "none" THEN failure
       ELSE IF ~built.ok THEN failure
       ELSE [raised |-> "none", assigns |-> TRUE,
             engine |-> PolicyEngine(built.ready),
             project_path |-> resolve_path(path).resolved]

\* eval that calls the native engine without looking at the field first
eval_without_guard(self_engine, event, native) ==
    IF self_engine = None
    THEN [raised |-> "AttributeError", evaluated |-> FALSE, value |-> "None"]
    ELSE IF ~event.serialisable
    THEN [raised |-> "TypeError", evaluated |-> FALSE, value |-> "None"]
    ELSE IF native = "ValueError"
    THEN [raised |-> "ValueError", evaluated |-> TRUE, value |-> "None"]
    ELSE [raised |-> "none", evaluated |-> TRUE, value |-> "decision"]

\* Cupcake.eval: the test of the field, json.dumps, the native evaluate,
\* json.loads
eval(self_engine, event, native) ==
    IF self_engine = None
    THEN [raised |-> "RuntimeError: not initialized", evaluated |-> FALSE,
          value |-> "None"]
    ELSE IF ~event.serialisable
    THEN [raised |-> "TypeError", evaluated |-> FALSE, value |-> "None"]
    ELSE IF native = "ValueError"
    THEN [raised |-> "ValueError", evaluated |-> TRUE, value |-> "None"]
    ELSE [raised |-> "none", evaluated |-> TRUE, value |-> "decision"]

\* Cupcake.is_ready
is_ready(self_engine) == self_engine # None /\ self_engine[2]

\* a coroutine that is not running
Idle == [pc |-> "idle", path |-> Path(FALSE, "none")]

\* the instance Cupcake() returns, before any call
Unbound ==
    /\ engine = None
    /\ project_path = None
    /\ init_task = Idle
    /\ eval_task = "idle"
    /\ calls = <<>>
    /\ evaluations = 0
    /\ initialized = 0

(* ---- the inputs ---- *)

s_a_io == <<"a",".","i","o">>
s_b_io == <<"b",".","i","o">>
s_c_io == <<"c",".","i","o">>
s_path_x == <<"/","x">>

url_a == s_http \o s_a_io \o s_path_x
url_b == s_http \o s_b_io \o s_path_x
url_c == s_http \o s_c_io \o s_path_x

NoJson == JsonText("none", <<>>)

\* values of URL_REPLACEMENTS
EnvReplacements ==
    { NoJson,
      JsonText("malformed", <<>>),
      JsonText("object", <<Pair(s_a_io, s_b_io)>>) }

\* values of --replacements
ArgReplacements ==
    { NoJson,
      JsonText("malformed", <<>>),
      JsonText("scalar", <<>>),
      JsonText("object", <<Pair(s_b_io, s_c_io)>>) }

\* values of SKIP_DOMAINS
EnvSkipDomains == {None, s_b_io}

\* the files a tree is made of
TreeFiles ==
    { TreeFile(<< <<"d","o","c","s">> >>, <<"a",".","m","d">>, TRUE,
               <<Link("mdlink", url_a)>>),
      TreeFile(<<>>, <<"b",".","h","t","m","l">>, TRUE,
               <<Link("href", url_b), Link("src", url_c)>>),
      TreeFile(<< <<"n","o","d","e","_","m","o","d","u","l","e","s">> >>,
               <<"c",".","m","d">>, TRUE, <<Link("bare", url_c)>>),
      TreeFile(<<>>, <<"e",".","m","d">>, FALSE, <<Link("bare", url_c)>>),
      TreeFile(<<>>, <<"c",".","m","d">>, TRUE,
               <<Link("mdlink", url_c), Link("mdlink", url_c),
                 Link("mdlink", url_c)>>) }

\* the sequences of at most n distinct elements of S
RECURSIVE DistinctSeqs(_, _)
DistinctSeqs(S, n) ==
    IF n = 0 THEN {<<>>}
    ELSE LET shorter == DistinctSeqs(S, n - 1)
         IN shorter \cup
            {Append(q, x) : <<q, x>> \in
                {<<q, x>> \in shorter \X S : Len(q) = n - 1 /\ x \notin Range(q)}}

\* what urlopen can do for a URL
Outcomes ==
    { Response(200),
      Response(399),
      Response(400),
      Raises("HTTPError", 404),
      Raises("URLError", 0),
      Raises("TimeoutError", 0),
      Raises("ValueError", 0) }

NoConfig ==
    [workers |-> 0, replacements |-> <<>>, skip_domains |-> {}, skip_urls |-> {},
     skip_files |-> {}, markdown_patterns |-> <<>>, html_patterns |-> <<>>,
     file_patterns |-> <<>>]

\* the state of the program when main is entered
Fresh ==
    /\ network = <<>>
    /\ pc = "main"
    /\ config = NoConfig
    /\ files = <<>>
    /\ all_urls = {}
    /\ url_sources = <<>>
    /\ urls_list = <<>>
    /\ task = <<>>
    /\ result = <<>>
    /\ yielded = {}
    /\ checked = 0
    /\ broken_links = <<>>
    /\ report = <<>>
    /\ stdout = <<>>
    /\ stderr = <<>>
    /\ exit_code = -1
    /\ walked = FALSE
    /\ opened = <<>>
    /\ attempts = <<>>
    /\ resubstituted = {}
    /\ Unbound

Init ==
    /\ environ \in
         [URL_REPLACEMENTS : EnvReplacements, SKIP_DOMAINS : EnvSkipDomains,
          SKIP_URLS : {None}, SKIP_FILES : {None}, MARKDOWN_PATTERNS : {None},
          HTML_PATTERNS : {None}, FILE_PATTERNS : {None}]
    /\ args \in
         [replacements : ArgReplacements, workers : 0..MaxWorkers,
          skip_domains : {None}, skip_urls : {None}, skip_files : {None},
          markdown_patterns : {None}, html_patterns : {None},
          file_patterns : {None}]
    /\ tree \in [exists : BOOLEAN,
                 files : {q \in DistinctSeqs(TreeFiles, MaxFiles) :
                            os_walk_order(q)}]
    /\ Fresh

(* ---- the sequential part ---- *)

\* main up to runner.run(): Config(args), which parses the replacements
\* first and leaves the process on a JSON error
Main ==
    /\ pc = "main"
    /\ LET parsed == parse_replacements(args.replacements, environ.URL_REPLACEMENTS)
       IN IF parsed.status = "exit"
          THEN /\ stderr' = Append(stderr, "Error parsing")
               /\ exit_code' = 1
               /\ pc' = "exit_config"
               /\ UNCHANGED config
          ELSE IF parsed.status = "raise"
          THEN /\ stderr' = Append(stderr, "Traceback")
               /\ exit_code' = 1
               /\ pc' = "traceback"
               /\ UNCHANGED config
          ELSE /\ config' = Config(args, environ, parsed.replacements)
               /\ pc' = "run"
               /\ UNCHANGED << stderr, exit_code >>
    /\ UNCHANGED << world, scan_state, extract_state, pool_state, report, stdout >>

\* run without its directory test
RunScanWithoutDirectoryTest ==
    /\ pc = "run"
    /\ walked' = TRUE
    /\ files' = scan_directory(tree.files, config)
    /\ opened' = opened_by_scan(tree.files, config)
    /\ stderr' = stderr \o
         [i \in 1..(Len(opened') - Len(files')) |-> "Warning"]
    /\ stdout' = stdout \o <<"config", "Scanning", "Found files">>
    /\ pc' = "scanned"
    /\ UNCHANGED exit_code
    /\ UNCHANGED << world, config, extract_state, pool_state, report >>

\* run: the directory test, print_config and scan_directory
RunScan ==
    /\ pc = "run"
    /\ IF ~tree.exists
       THEN /\ stderr' = Append(stderr, "Error: Directory")
            /\ exit_code' = 1
            /\ pc' = "exit_nodir"
            /\ UNCHANGED << scan_state, stdout >>
       ELSE /\ walked' = TRUE
            /\ files' = scan_directory(tree.files, config)
            /\ opened' = opened_by_scan(tree.files, config)
            /\ stderr' = stderr \o
                 [i \in 1..(Len(opened') - Len(files')) |-> "Warning"]
            /\ stdout' = stdout \o <<"config", "Scanning", "Found files">>
            /\ pc' = "scanned"
            /\ UNCHANGED exit_code
    /\ UNCHANGED << world, config, extract_state, pool_state, report >>

\* run: extract_all_urls
RunExtract ==
    /\ pc = "scanned"
    /\ \E got \in {extract_all_urls(files, config)} :
          /\ all_urls' = got.all_urls
          /\ url_sources' = got.url_sources
    /\ resubstituted' = all_resubstitutions(files, config)
    /\ stdout' = Append(stdout, "Found URLs")
    /\ pc' = "extracted"
    /\ UNCHANGED << world, config, scan_state, pool_state, report, stderr,
                    exit_code >>

(* ---- check_urls_parallel ---- *)

\* one submission per place a URL was found in, not per URL
RECURSIVE submission_per_occurrence(_)
submission_per_occurrence(urls) ==
    IF urls = {} THEN <<>>
    ELSE LET first == sorted(urls)[1]
         IN [i \in 1..Len(url_sources[first]) |-> first]
            \o submission_per_occurrence(urls \ {first})

\* the URLs in descending order
submission_descending(urls) ==
    [i \in 1..Cardinality(urls) |-> sorted(urls)[Cardinality(urls) + 1 - i]]

\* the list the futures are submitted from
submission_list(urls) == sorted(urls)

\* check_single_url
check_single_url(url, outcome) ==
    [url |-> url] @@ check_url(outcome)

NoResult ==
    [url |-> <<>>, raised |-> FALSE, success |-> FALSE, status |-> 0,
     detail |-> "pending"]

running_tasks == {i \in DOMAIN task : task[i] = "running"}

\* check_urls_parallel up to the submissions: the locals and the
\* ThreadPoolExecutor, which refuses max_workers <= 0 with a ValueError
BeginCheck ==
    /\ pc = "extracted"
    /\ broken_links' = <<>>
    /\ checked' = 0
    /\ urls_list' = submission_list(all_urls)
    /\ yielded' = {}
    /\ IF config.workers <= 0
       THEN /\ stderr' = Append(stderr, "Traceback")
            /\ exit_code' = 1
            /\ pc' = "traceback"
            /\ UNCHANGED << network, task, result, attempts >>
       ELSE /\ network' \in [all_urls -> Outcomes]
            /\ task' = [i \in 1..Len(urls_list') |-> "new"]
            /\ result' = [i \in 1..Len(urls_list') |-> NoResult]
            /\ attempts' = [u \in all_urls |-> 0]
            /\ pc' = IF urls_list' = <<>> THEN "collect" ELSE "submit"
            /\ UNCHANGED << stderr, exit_code >>
    /\ UNCHANGED << world, config, scan_state, extract_state, report, stdout >>

\* executor.submit for the next URL of urls_list (the dict comprehension)
Submit ==
    /\ pc = "submit"
    /\ LET k == CHOOSE k \in DOMAIN task :
                    task[k] = "new" /\ \A j \in 1..(k - 1) : task[j] # "new"
       IN /\ task' = [task EXCEPT ![k] = "queued"]
          /\ pc' = IF k = Len(urls_list) THEN "collect" ELSE "submit"
    /\ UNCHANGED << world, config, scan_state, extract_state, network, urls_list,
                    result, yielded, checked, broken_links, attempts, report,
                    stdout, stderr, exit_code >>

\* a pool that starts a thread for every work item, whatever max_workers
StartTaskOnNewThread(i) ==
    /\ pc \in {"submit", "collect"}
    /\ i \in DOMAIN task
    /\ task[i] = "queued"
    /\ \A j \in 1..(i - 1) : task[j] # "queued"
    /\ task' = [task EXCEPT ![i] = "running"]
    /\ attempts' = [attempts EXCEPT ![urls_list[i]] = @ + 1]
    /\ UNCHANGED << world, config, scan_state, extract_state, network, urls_list,
                    result, yielded, checked, broken_links, report, stdout,
                    stderr, exit_code, pc >>

\* a pool whose threads end after their first work item
StartTaskOnUnusedThread(i) ==
    /\ pc \in {"submit", "collect"}
    /\ i \in DOMAIN task
    /\ task[i] = "queued"
    /\ \A j \in 1..(i - 1) : task[j] # "queued"
    /\ Cardinality({j \in DOMAIN task : task[j] \in {"running", "finished"}})
          < config.workers
    /\ task' = [task EXCEPT ![i] = "running"]
    /\ attempts' = [attempts EXCEPT ![urls_list[i]] = @ + 1]
    /\ UNCHANGED << world, config, scan_state, extract_state, network, urls_list,
                    result, yielded, checked, broken_links, report, stdout,
                    stderr, exit_code, pc >>

\* a worker thread that is free takes the oldest queued work item and
\* calls urlopen
StartTask(i) ==
    /\ pc \in {"submit", "collect"}
    /\ i \in DOMAIN task
    /\ task[i] = "queued"
    /\ \A j \in 1..(i - 1) : task[j] # "queued"
    /\ Cardinality(running_tasks) < config.workers
    /\ task' = [task EXCEPT ![i] = "running"]
    /\ attempts' = [attempts EXCEPT ![urls_list[i]] = @ + 1]
    /\ UNCHANGED << world, config, scan_state, extract_state, network, urls_list,
                    result, yielded, checked, broken_links, report, stdout,
                    stderr, exit_code, pc >>

\* a task that appends its own failure to broken_links from its worker
\* thread
FinishTaskAppending(i) ==
    /\ pc \in {"submit", "collect"}
    /\ i \in DOMAIN task
    /\ task[i] = "running"
    /\ task' = [task EXCEPT ![i] = "finished"]
    /\ result' = [result EXCEPT
                    ![i] = check_single_url(urls_list[i], network[urls_list[i]])]
    /\ broken_links' =
         IF ~result'[i].success
         THEN Append(broken_links,
                     [url |-> result'[i].url, status_code |-> result'[i].status,
                      error_msg |-> result'[i].detail,
                      source_files |-> url_sources[result'[i].url]])
         ELSE broken_links
    /\ UNCHANGED << world, config, scan_state, extract_state, network, urls_list,
                    yielded, checked, attempts, report, stdout, stderr,
                    exit_code, pc >>

\* urlopen returns or raises; check_single_url returns, the future is done
FinishTask(i) ==
    /\ pc \in {"submit", "collect"}
    /\ i \in DOMAIN task
    /\ task[i] = "running"
    /\ task' = [task EXCEPT ![i] = "finished"]
    /\ result' = [result EXCEPT
                    ![i] = check_single_url(urls_list[i], network[urls_list[i]])]
    /\ UNCHANGED << world, config, scan_state, extract_state, network, urls_list,
                    yielded, checked, broken_links, attempts, report, stdout,
                    stderr, exit_code, pc >>

\* one iteration of the loop over as_completed(futures). as_completed
\* first hands out the futures that are already done, in the iteration
\* order of a set of Future objects (any order), then the others as they
\* complete: the next future is any one that is done and was not handed
\* out yet. future.result() raises what the task raised.
Consume(i) ==
    /\ pc = "collect"
    /\ i \in DOMAIN task
    /\ task[i] = "finished"
    /\ i \notin yielded
    /\ yielded' = yielded \cup {i}
    /\ checked' = checked + 1
    /\ IF result[i].raised
       THEN /\ stderr' = Append(stderr, "Traceback")
            /\ exit_code' = 1
            /\ pc' = "traceback"
            /\ UNCHANGED << broken_links, stdout >>
       ELSE /\ stdout' = Append(stdout, "Checking URLs")
            /\ broken_links' =
                 IF ~result[i].success
                 THEN Append(broken_links,
                             [url |-> result[i].url,
                              status_code |-> result[i].status,
                              error_msg |-> result[i].detail,
                              source_files |-> url_sources[result[i].url]])
                 ELSE broken_links
            /\ UNCHANGED << stderr, exit_code, pc >>
    /\ UNCHANGED << world, config, scan_state, extract_state, network, urls_list,
                    task, result, attempts, report >>

(* ---- print_results ---- *)

\* the number of source files print_results lists for a broken link
SHOWN_SOURCES == 5

\* the block printed for one broken link
report_block(link) ==
    [url |-> link.url,
     status |-> link.error_msg,
     found_in |-> SubSeq(link.source_files, 1,
                    IF Len(link.source_files) > SHOWN_SOURCES
                    THEN SHOWN_SOURCES ELSE Len(link.source_files)),
     more |-> IF Len(link.source_files) > SHOWN_SOURCES
              THEN Len(link.source_files) - SHOWN_SOURCES ELSE 0]

\* print_results that reports failure only from the second broken link on
print_results_off_by_one(links) ==
    IF Len(links) > 1
    THEN [banner |-> "BROKEN LINKS FOUND",
          blocks |-> [i \in 1..Len(links) |-> report_block(links[i])],
          returns |-> 1]
    ELSE [banner |-> "ALL LINKS OK", blocks |-> <<>>, returns |-> 0]

\* URLCheckRunner.print_results: what it prints and what it returns
print_results(links) ==
    IF links # <<>>
    THEN [banner |-> "BROKEN LINKS FOUND",
          blocks |-> [i \in 1..Len(links) |-> report_block(links[i])],
          returns |-> 1]
    ELSE [banner |-> "ALL LINKS OK", blocks |-> <<>>, returns |-> 0]

\* the report made as soon as the submissions are done, without waiting
\* for every future
ReportWithoutWaiting ==
    /\ pc = "collect"
    /\ LET printed == print_results(broken_links)
       IN /\ stdout' = Append(stdout, printed.banner)
          /\ report' = printed.blocks
          /\ exit_code' = printed.returns
    /\ pc' = "exit_report"
    /\ UNCHANGED << world, config, scan_state, extract_state, pool_state, stderr >>

\* the loop over as_completed ends, the pool shuts down, run prints the
\* results and main returns their exit status
Report ==
    /\ pc = "collect"
    /\ yielded = DOMAIN task
    /\ LET printed == print_results(broken_links)
       IN /\ stdout' = Append(stdout, printed.banner)
          /\ report' = printed.blocks
          /\ exit_code' = printed.returns
    /\ pc' = "exit_report"
    /\ UNCHANGED << world, config, scan_state, extract_state, pool_state, stderr >>

Next ==
    \/ Main
    \/ RunScan
    \/ RunExtract
    \/ BeginCheck
    \/ Submit
    \/ \E i \in DOMAIN task : StartTask(i)
    \/ \E i \in DOMAIN task : FinishTask(i)
    \/ \E i \in DOMAIN task : Consume(i)
    \/ Report

Spec == Init /\ [][Next]_vars

\* The scheduling the termination of check_urls_parallel rests on: the
\* main thread keeps running (it submits, takes the next completed future
\* from as_completed, leaves the loop); a pool thread that is free takes
\* the next queued work item; every request returns, with a response, an
\* error or, after config.timeout seconds, a timeout.
Fairness ==
    /\ WF_vars(Submit \/ (\E i \in DOMAIN task : Consume(i)) \/ Report)
    /\ WF_vars(\E i \in DOMAIN task : StartTask(i))
    /\ WF_vars(\E i \in DOMAIN task : FinishTask(i))

\* the runs that reach the checking phase: a directory that exists and
\* whose files are all read, no setting given but the pool size, which is
\* at least 1
InitFair ==
    /\ environ =
         [URL_REPLACEMENTS |-> NoJson, SKIP_DOMAINS |-> None, SKIP_URLS |-> None,
          SKIP_FILES |-> None, MARKDOWN_PATTERNS |-> None,
          HTML_PATTERNS |-> None, FILE_PATTERNS |-> None]
    /\ args \in
         [replacements : {NoJson}, workers : 1..MaxWorkers,
          skip_domains : {None}, skip_urls : {None}, skip_files : {None},
          markdown_patterns : {None}, html_patterns : {None},
          file_patterns : {None}]
    /\ tree \in [exists : {TRUE},
                 files : {q \in DistinctSeqs(TreeFiles, MaxFiles) :
                            /\ os_walk_order(q)
                            /\ \A k \in 1..Len(q) :
                                  q[k].readable /\ ~pruned(q[k])}]
    /\ Fresh

SpecFair == InitFair /\ [][Next]_vars /\ Fairness

(* ------------------------------------------------------------------ *)
(* extract_all_urls on its own, over a wider range of inputs: the      *)
(* state in which run calls it, for every configuration and tree below *)
(* ------------------------------------------------------------------ *)

s_txt == <<".","t","x","t">>
s_port == <<":","8","0">>

url_B80 == s_https \o <<"B",".","i","o">> \o s_port \o s_path_x
url_rel == <<"/","r","e","l">>
url_local == s_http \o s_localhost \o s_path_x
url_userinfo == s_http \o <<"u",":","p","@">> \o s_b_io \o s_path_x
url_example == s_http \o s_example_com \o s_path_x
url_Example == s_http \o <<"E","x","a","m","p","l","e",".","c","o","m">> \o s_path_x
url_Local == s_https \o <<"L","o","c","a","l","h","o","s","t">> \o s_path_x
url_Http == <<"H","t","t","p",":","/","/">> \o s_a_io \o s_path_x

ExtractContents ==
    { <<Link("href", url_a), Link("mdlink", url_b)>>,
      <<Link("mdlink", url_rel), Link("bare", url_B80), Link("refdef", url_local),
        Link("bare", url_Local)>>,
      <<Link("src", url_userinfo), Link("bare", url_example),
        Link("bare", url_Example), Link("href", url_Http)>> }

ExtractReplacements ==
    { NoJson,
      JsonText("object", <<Pair(s_a_io, s_b_io)>>),
      JsonText("object", <<Pair(s_b_io, s_a_io)>>),
      JsonText("object", <<Pair(s_a_io, s_b_io), Pair(s_b_io, s_c_io)>>),
      JsonText("object", <<Pair(s_b_io, s_c_io), Pair(s_a_io, s_b_io)>>),
      JsonText("object", <<Pair(s_a_io, s_example_com), Pair(s_localhost, s_c_io)>>) }

\* the k-th file of the tree: its name ends in the extension given
ExtractFile(k, extension, content) ==
    TreeFile(<<>>, [i \in 1..k |-> "f"] \o extension, TRUE, content)

ExtractTrees ==
    UNION { { [k \in 1..n |-> ExtractFile(k, e[k], c[k])] :
                <<e, c>> \in [1..n -> {s_md, s_html, s_txt}]
                             \X [1..n -> ExtractContents] } :
            n \in 0..MaxScanned }

InitExtract ==
    /\ environ \in
         [URL_REPLACEMENTS : ExtractReplacements, SKIP_DOMAINS : {None, s_b_io},
          SKIP_URLS : {None, s_port}, SKIP_FILES : {None},
          MARKDOWN_PATTERNS : {None}, HTML_PATTERNS : {None},
          FILE_PATTERNS : {s_txt}]
    /\ environ.SKIP_URLS = None \/ environ.URL_REPLACEMENTS = NoJson
    /\ args =
         [replacements |-> NoJson, workers |-> 1, skip_domains |-> None,
          skip_urls |-> None, skip_files |-> None, markdown_patterns |-> None,
          html_patterns |-> None, file_patterns |-> None]
    /\ tree \in [exists : {TRUE}, files : ExtractTrees]
    /\ config = Config(args, environ,
                  parse_replacements(args.replacements,
                                     environ.URL_REPLACEMENTS).replacements)
    /\ files = scan_directory(tree.files, config)
    /\ walked = TRUE
    /\ opened = opened_by_scan(tree.files, config)
    /\ stdout = <<"config", "Scanning", "Found files">>
    /\ pc = "scanned"
    /\ network = <<>>
    /\ all_urls = {}
    /\ url_sources = <<>>
    /\ urls_list = <<>>
    /\ task = <<>>
    /\ result = <<>>
    /\ yielded = {}
    /\ checked = 0
    /\ broken_links = <<>>
    /\ report = <<>>
    /\ stderr = <<>>
    /\ exit_code = -1
    /\ attempts = <<>>
    /\ resubstituted = {}
    /\ Unbound

NextExtract == RunExtract

SpecExtract == InitExtract /\ [][NextExtract]_vars

(* ------------------------------------------------------------------ *)
(* Config and scan_directory over a wider range of settings and trees: *)
(* main from its start to the end of extract_all_urls                  *)
(* ------------------------------------------------------------------ *)

\* the two sources of one setting: the environment variable and the
\* command-line option
Given(env, arg) == [env |-> env, arg |-> arg]

NotGiven == Given(None, None)

\* URL_REPLACEMENTS and --replacements
ScanReplacements ==
    { Given(e, a) :
        e \in { NoJson, JsonText("spaces", <<>>),
                JsonText("object", <<Pair(s_a_io, s_b_io)>>),
                JsonText("object", <<Pair(s_a_io, s_b_io), Pair(s_b_io, s_c_io)>>) },
        a \in { NoJson, JsonText("empty", <<>>),
                JsonText("object", <<Pair(s_b_io, s_a_io)>>),
                JsonText("object", <<Pair(s_c_io, s_a_io), Pair(s_a_io, s_c_io)>>) } }

\* SKIP_DOMAINS and --skip-domains
ScanSkipDomains ==
    { Given(e, a) :
        e \in { None, <<" ">>, <<"B",".","i","o",","," ",",","c",".","i","o">> },
        a \in { None, <<>>, <<" ","a",".","i","o",",","b",".","i","o">> } }

\* SKIP_URLS and --skip-urls
ScanSkipUrls ==
    { Given(e, a) :
        e \in { None, <<" ">>, <<":","8","0",","," ",",","/","r">> },
        a \in { None, <<>>, <<"/","x"," ",",",":","8","0">> } }

\* SKIP_FILES and --skip-files
ScanSkipFiles ==
    { Given(e, a) :
        e \in { None, <<" ">>, <<"a",".","m","d",","," ",",","c",".","t","x","t">> },
        a \in { None, <<>>, <<"b",".","h","t","m","l",",","a",".","m","d">> } }

\* MARKDOWN_PATTERNS and --markdown-patterns
ScanMarkdownPatterns ==
    { NotGiven,
      Given(<<".","t","x","t",",",".","m","d">>, None),
      Given(None, <<" ",".","h","t","m","l"," ",","," ">>),
      Given(<<".","t","x","t",",",".","m","d">>, <<" ",".","h","t","m","l"," ",","," ">>),
      Given(<<",">>, <<>>) }

\* HTML_PATTERNS and --html-patterns
ScanHtmlPatterns ==
    { NotGiven,
      Given(<<" ">>, <<>>),
      Given(s_md, None),
      Given(s_md, <<" ">>),
      Given(s_md, <<"l",",",".","t","x","t">>) }

\* FILE_PATTERNS and --file-patterns
ScanFilePatterns ==
    { NotGiven,
      Given(<<".","t","x","t",",",".","h","t","m","l">>, None),
      Given(<<"d">>, <<"l",",",".","t","x","t">>) }

Settings(r, sd, su, sf, mp, hp, fp) ==
    [replacements |-> r, skip_domains |-> sd, skip_urls |-> su,
     skip_files |-> sf, markdown_patterns |-> mp, html_patterns |-> hp,
     file_patterns |-> fp]

\* the settings of a run: the replacements, the skip-domains, the
\* skip-urls or the skip-files over all their values with the rest not
\* given, the three skip lists given in both sources at once, and the
\* three pattern lists together with skip-files
ScanSettings ==
    LET NoReplacements == Given(NoJson, NoJson)
        InBoth(S) == {g \in S : g.env \notin {None, <<" ">>}
                                /\ g.arg \notin {None, <<>>}}
    IN {Settings(r, NotGiven, NotGiven, NotGiven, NotGiven, NotGiven, NotGiven) :
            r \in ScanReplacements}
       \cup {Settings(NoReplacements, sd, NotGiven, NotGiven, NotGiven, NotGiven,
                      NotGiven) : sd \in ScanSkipDomains}
       \cup {Settings(NoReplacements, NotGiven, su, NotGiven, NotGiven, NotGiven,
                      NotGiven) : su \in ScanSkipUrls}
       \cup {Settings(NoReplacements, NotGiven, NotGiven, sf, NotGiven, NotGiven,
                      NotGiven) : sf \in ScanSkipFiles}
       \cup {Settings(NoReplacements, sd, su, sf, NotGiven, NotGiven, NotGiven) :
                sd \in InBoth(ScanSkipDomains), su \in InBoth(ScanSkipUrls),
                sf \in InBoth(ScanSkipFiles)}
       \cup {Settings(NoReplacements, NotGiven, NotGiven, sf, mp, hp, fp) :
                sf \in {g \in ScanSkipFiles : None \in {g.env, g.arg}
                                               /\ <<" ">> # g.env /\ <<>> # g.arg},
                mp \in ScanMarkdownPatterns, hp \in ScanHtmlPatterns,
                fp \in ScanFilePatterns}

\* the files a tree of SpecScan is made of
ScanFiles ==
    { TreeFile(<<>>, <<"a",".","m","d">>, TRUE, <<Link("mdlink", url_a)>>),
      TreeFile(<<>>, <<"b",".","h","t","m","l">>, TRUE,
               <<Link("href", url_b), Link("src", url_c)>>),
      TreeFile(<<>>, <<"c",".","t","x","t">>, TRUE,
               <<Link("mdlink", url_b), Link("href", url_a)>>),
      TreeFile(<<>>, <<"e",".","m","d">>, FALSE, <<Link("bare", url_c)>>),
      TreeFile(<< <<"d","o","c","s">> >>, <<"a",".","m","d">>, TRUE, <<Link("bare", url_b)>>),
      TreeFile(<< <<"d","o","c","s">>, <<"b","u","i","l","d">> >>, <<"a",".","m","d">>, TRUE,
               <<Link("bare", url_c)>>),
      TreeFile(<< <<"b","u","i","l","d","s">> >>, <<"b",".","h","t","m","l">>,
               TRUE, <<Link("href", url_a)>>),
      TreeFile(<< <<"n","o","d","e","_","m","o","d","u","l","e","s">> >>,
               <<"b",".","h","t","m","l">>, TRUE, <<Link("href", url_c)>>) }

ScanTrees == {q \in DistinctSeqs(ScanFiles, MaxTree) : os_walk_order(q)}

InitScan ==
    /\ \E s \in ScanSettings :
          /\ environ =
               [URL_REPLACEMENTS |-> s.replacements.env,
                SKIP_DOMAINS |-> s.skip_domains.env,
                SKIP_URLS |-> s.skip_urls.env,
                SKIP_FILES |-> s.skip_files.env,
                MARKDOWN_PATTERNS |-> s.markdown_patterns.env,
                HTML_PATTERNS |-> s.html_patterns.env,
                FILE_PATTERNS |-> s.file_patterns.env]
          /\ args =
               [replacements |-> s.replacements.arg, workers |-> 1,
                skip_domains |-> s.skip_domains.arg,
                skip_urls |-> s.skip_urls.arg,
                skip_files |-> s.skip_files.arg,
                markdown_patterns |-> s.markdown_patterns.arg,
                html_patterns |-> s.html_patterns.arg,
                file_patterns |-> s.file_patterns.arg]
    /\ tree \in [exists : {TRUE}, files : ScanTrees]
    /\ Fresh

NextScan ==
    \/ Main
    \/ RunScan
    \/ RunExtract

SpecScan == InitScan /\ [][NextScan]_vars

(* ------------------------------------------------------------------ *)
(* cupcake-py: one Cupcake instance and the calls made on it. The      *)
(* native module and the OPA installer are outside: what they do is    *)
(* chosen freely at each call. The coroutines run on one event loop,   *)
(* so a coroutine is atomic from one await to the next.                *)
(* ------------------------------------------------------------------ *)

Paths == {Path(TRUE, "project"), Path(FALSE, ".cupcake"), Path(FALSE, "project")}

Builds == {Built(TRUE, TRUE), Built(TRUE, FALSE), Built(FALSE, FALSE)}

Events == [serialisable : BOOLEAN]

\* the state of the link checker, which the binding never touches
checker_state ==
    << environ, args, tree, network, pc, config, files, all_urls, url_sources,
       urls_list, task, result, yielded, checked, broken_links, report,
       stdout, stderr, exit_code, walked, opened, attempts, resubstituted >>

\* the calls made so far, those in progress included
started ==
    Len(calls) + (IF init_task.pc # "idle" THEN 1 ELSE 0)
               + (IF eval_task # "idle" THEN 1 ELSE 0)

\* engine.init(path)
InitCall ==
    /\ started < MaxCalls
    /\ \E path \in Paths, opa_installed \in BOOLEAN, built \in Builds :
          \E r \in {init(path, opa_installed, built)} :
             /\ engine' = IF r.assigns THEN r.engine ELSE engine
             /\ project_path' = IF r.assigns THEN r.project_path ELSE project_path
             /\ initialized' = initialized + (IF r.assigns THEN 1 ELSE 0)
             /\ calls' = Append(calls, Call("init", r.raised, "None"))
    /\ UNCHANGED << checker_state, init_task, eval_task, evaluations >>

\* engine.init_async(path) up to its first await: ensure_opa_installed
\* goes to a thread
BeginInitAsync ==
    /\ started < MaxCalls
    /\ init_task.pc = "idle"
    /\ \E path \in Paths : init_task' = [pc |-> "installing", path |-> path]
    /\ UNCHANGED << checker_state, engine, project_path, eval_task, calls,
                    evaluations, initialized >>

\* init_async from the first await to the second: the installer is back,
\* the path is resolved, the native constructor goes to a thread
InitAsyncInstalled ==
    /\ init_task.pc = "installing"
    /\ \E opa_installed \in BOOLEAN :
          IF ~opa_installed \/ resolve_path(init_task.path).raised # "none"
          THEN /\ calls' = Append(calls, Call("init_async", "RuntimeError", "None"))
               /\ init_task' = Idle
          ELSE /\ init_task' = [init_task EXCEPT !.pc = "constructing"]
               /\ UNCHANGED calls
    /\ UNCHANGED << checker_state, engine, project_path, eval_task,
                    evaluations, initialized >>

\* init_async after the second await: the two assignments
InitAsyncConstructed ==
    /\ init_task.pc = "constructing"
    /\ \E built \in Builds :
          IF ~built.ok
          THEN /\ calls' = Append(calls, Call("init_async", "RuntimeError", "None"))
               /\ UNCHANGED << engine, project_path, initialized >>
          ELSE /\ engine' = PolicyEngine(built.ready)
               /\ project_path' = resolve_path(init_task.path).resolved
               /\ initialized' = initialized + 1
               /\ calls' = Append(calls, Call("init_async", "none", "None"))
    /\ init_task' = Idle
    /\ UNCHANGED << checker_state, eval_task, evaluations >>

\* engine.eval(event)
EvalCall ==
    /\ started < MaxCalls
    /\ \E event \in Events, native \in {"json", "ValueError"} :
          \E r \in {eval(engine, event, native)} :
             /\ calls' = Append(calls, Call("eval", r.raised, r.value))
             /\ evaluations' = evaluations + (IF r.evaluated THEN 1 ELSE 0)
    /\ UNCHANGED << checker_state, engine, project_path, init_task, eval_task,
                    initialized >>

\* engine.eval_async(event) up to its await: the test of the field,
\* json.dumps, the native evaluate goes to a thread
BeginEvalAsync ==
    /\ started < MaxCalls
    /\ eval_task = "idle"
    /\ \E event \in Events :
          IF engine = None
          THEN /\ calls' = Append(calls, Call("eval_async",
                                  "RuntimeError: not initialized", "None"))
               /\ UNCHANGED << eval_task, evaluations >>
          ELSE IF ~event.serialisable
          THEN /\ calls' = Append(calls, Call("eval_async", "TypeError", "None"))
               /\ UNCHANGED << eval_task, evaluations >>
          ELSE /\ eval_task' = "evaluating"
               /\ evaluations' = evaluations + 1
               /\ UNCHANGED calls
    /\ UNCHANGED << checker_state, engine, project_path, init_task, initialized >>

\* eval_async after its await: the native evaluate returned or raised
EndEvalAsync ==
    /\ eval_task = "evaluating"
    /\ \E native \in {"json", "ValueError"} :
          calls' = Append(calls,
                      IF native = "ValueError"
                      THEN Call("eval_async", "ValueError", "None")
                      ELSE Call("eval_async", "none", "decision"))
    /\ eval_task' = "idle"
    /\ UNCHANGED << checker_state, engine, project_path, init_task, evaluations,
                    initialized >>

\* engine.is_ready()
IsReadyCall ==
    /\ started < MaxCalls
    /\ calls' = Append(calls, Call("is_ready", "none",
                                   IF is_ready(engine) THEN "True" ELSE "False"))
    /\ UNCHANGED << checker_state, engine, project_path, init_task, eval_task,
                    evaluations, initialized >>

\* a process that made a Cupcake instance and does not run the link
\* checker
InitEngine ==
    /\ environ =
         [URL_REPLACEMENTS |-> NoJson, SKIP_DOMAINS |-> None, SKIP_URLS |-> None,
          SKIP_FILES |-> None, MARKDOWN_PATTERNS |-> None,
          HTML_PATTERNS |-> None, FILE_PATTERNS |-> None]
    /\ args =
         [replacements |-> NoJson, workers |-> 1, skip_domains |-> None,
          skip_urls |-> None, skip_files |-> None, markdown_patterns |-> None,
          html_patterns |-> None, file_patterns |-> None]
    /\ tree = [exists |-> FALSE, files |-> <<>>]
    /\ Fresh

NextEngine ==
    \/ InitCall
    \/ BeginInitAsync
    \/ InitAsyncInstalled
    \/ InitAsyncConstructed
    \/ EvalCall
    \/ BeginEvalAsync
    \/ EndEvalAsync
    \/ IsReadyCall

SpecEngine == InitEngine /\ [][NextEngine]_vars

(* ------------------------------------------------------------------ *)
(* Properties                                                          *)
(* ------------------------------------------------------------------ *)

\* urlopen's behaviour for a URL is a failure of the link: it raises, or
\* the status it returns is outside [200, 400)
unreachable(outcome) ==
    outcome.kind = "raise" \/ outcome.status < 200 \/ outcome.status >= 400

\* the canonical URLs whose check fails, given the network alone
failing_urls == {u \in all_urls : unreachable(network[u])}

broken_urls == {broken_links[i].url : i \in 1..Len(broken_links)}

\* the canonical URLs of broken_links, in the order of the list
broken_url_list == [i \in 1..Len(broken_links) |-> broken_links[i].url]

\* C1: for a fixed canonical URL set and fixed per-URL outcomes, the set of
\* URLs reported broken and the exit code are a function of those two
\* alone: the same for every interleaving of the tasks and every pool
\* size >= 1.
C1_BrokenSetAndExitCodeDeterministic ==
    pc = "exit_report" =>
        /\ broken_urls = failing_urls
        /\ exit_code = IF failing_urls = {} THEN 0 ELSE 1

\* a run with two workers in which two links failed and the later one of
\* the submission order was handed to the loop first
C1_Witness ==
    /\ pc = "exit_report"
    /\ config.workers >= 2
    /\ Len(broken_links) = 2
    /\ str_less(broken_links[2].url, broken_links[1].url)
    /\ Cardinality(all_urls) > 2
    /\ exit_code = 1

\* C2: the sequence of broken-link entries that check_urls_parallel
\* returns and print_results prints is the same for every completion
\* order; it then is the one obtained when the tasks complete in the
\* order of their submission, the failing URLs in sorted order.
C2_ReportOrderIndependentOfCompletion ==
    pc = "exit_report" =>
        /\ broken_url_list = sorted(failing_urls)
        /\ [i \in 1..Len(report) |-> report[i].url] = sorted(failing_urls)

\* C3: a run that reaches the reporter exits 0 if and only if no check of
\* a canonical URL failed, and 1 otherwise; with no URL found it exits 0.
C3_ExitCodeIffNoFailure ==
    pc = "exit_report" =>
        /\ exit_code \in {0, 1}
        /\ exit_code = 0 <=> \A i \in DOMAIN result : result[i].success
        /\ all_urls = {} => exit_code = 0

\* a reported run in which one link resolved and another did not
C3_Witness ==
    /\ pc = "exit_report"
    /\ exit_code = 1
    /\ \E i \in DOMAIN result : result[i].success
    /\ \E i \in DOMAIN result : ~result[i].success

\* the eligible ones among the raw occurrences, in order, each with the
\* file it is in and its rewritten form
RECURSIVE rewritten(_)
rewritten(occs) ==
    IF occs = <<>> THEN <<>>
    ELSE (IF is_valid_url(occs[1].url, config)
          THEN <<[path |-> occs[1].path,
                  replaced |-> apply_replacements(occs[1].url, config)]>>
          ELSE <<>>)
         \o rewritten(Tail(occs))

\* the raw URLs that passed the filter, by index in occs
eligible_in(occs) == {i \in 1..Len(occs) : is_valid_url(occs[i].url, config)}

eligible_occurrences == eligible_in(raw_occurrences(files))

\* C4: a raw URL contributes its rewritten form to the canonical set if
\* and only if the raw URL itself passes is_valid_url; whether the
\* rewritten form would pass plays no part.
C4_FilterOnRawUrlOnly ==
    pc = "extracted" =>
        \A occs \in {rewritten(raw_occurrences(files))} :
           /\ all_urls = {occs[i].replaced : i \in 1..Len(occs)}
           /\ \A u \in all_urls :
                 Len(url_sources[u]) =
                     Cardinality({i \in 1..Len(occs) : occs[i].replaced = u})

\* an ineligible raw URL whose rewritten form would pass and is not in
\* the set, beside an eligible raw URL whose rewritten form would not
\* pass and is in the set
C4_Witness ==
    /\ pc = "extracted"
    /\ LET occs == raw_occurrences(files)
       IN /\ \E i \in 1..Len(occs) :
                /\ ~is_valid_url(occs[i].url, config)
                /\ is_valid_url(apply_replacements(occs[i].url, config), config)
                /\ apply_replacements(occs[i].url, config) \notin all_urls
          /\ \E i \in 1..Len(occs) :
                /\ is_valid_url(occs[i].url, config)
                /\ ~is_valid_url(apply_replacements(occs[i].url, config), config)
                /\ apply_replacements(occs[i].url, config) \in all_urls

\* the domain of url contains a skip-domain entry
domain_skipped(url) ==
    \E skip \in config.skip_domains : contains(get_domain(url), skip)

\* C5 as stated: no URL of the canonical set has a domain that contains a
\* skip-domain entry.
C5_NoCanonicalUrlInSkippedDomain ==
    pc = "extracted" => \A u \in all_urls : ~domain_skipped(u)

\* C5 as amended: no raw URL whose domain contains a skip-domain entry
\* contributes to the canonical set or to a provenance list, whatever the
\* replacements; every canonical URL is the rewritten form of a raw URL
\* whose domain contains no skip-domain entry.
C5_SkippedRawUrlNeverContributes ==
    pc = "extracted" =>
        \A occs \in {raw_occurrences(files)} :
        \A unskipped \in {{i \in 1..Len(occs) : ~domain_skipped(occs[i].url)}} :
        \A u \in all_urls :
           \A kept \in {{i \in unskipped :
                           apply_replacements(occs[i].url, config) = u}} :
              kept # {} /\ Len(url_sources[u]) <= Cardinality(kept)

\* a raw URL in a skipped domain that a replacement would have rewritten
\* into a URL that passes the filter
C5_Witness ==
    /\ pc = "extracted"
    /\ config.replacements # <<>>
    /\ LET occs == raw_occurrences(files)
       IN \E i \in 1..Len(occs) :
            /\ is_absolute(occs[i].url)
            /\ domain_skipped(occs[i].url)
            /\ apply_replacements(occs[i].url, config) # occs[i].url
            /\ is_valid_url(apply_replacements(occs[i].url, config), config)
            /\ apply_replacements(occs[i].url, config) \notin all_urls

\* C6 as stated: text that one pair's `to` value wrote into the URL is
\* never substituted by another pair's `from` pattern.
C6_WrittenTextNeverResubstituted ==
    resubstituted = {}

\* C6 as amended: the pairs are applied once each in configuration order,
\* so text written by a pair is substituted only by pairs that come later
\* in that order, never by the same or an earlier pair.
C6_ResubstitutionOnlyByLaterPairs ==
    \A ij \in resubstituted : ij[1] < ij[2]

\* the second pair wrote text that holds the first pair's pattern, and the
\* text stands in a canonical URL
C6_Witness ==
    /\ pc = "extracted"
    /\ Len(config.replacements) = 2
    /\ contains(config.replacements[2].to, config.replacements[1].from)
    /\ \E i \in eligible_occurrences :
          contains(raw_occurrences(files)[i].url, config.replacements[2].from)
    /\ \E u \in all_urls : contains(u, config.replacements[2].to)
    /\ resubstituted = {}

\* C7: every distinct canonical URL gets exactly one check attempt in a
\* run: one task and one urlopen call, never a second.
C7_OneAttemptPerCanonicalUrl ==
    /\ \A u \in DOMAIN attempts : attempts[u] <= 1
    /\ pc \in {"submit", "collect", "exit_report"} =>
          /\ Len(urls_list) = Cardinality(all_urls)
          /\ Range(urls_list) = all_urls
    /\ pc = "exit_report" => \A u \in all_urls : attempts[u] = 1

\* a failed URL that three raw occurrences in two files rewrite to
C7_Witness ==
    /\ pc = "exit_report"
    /\ \E u \in all_urls :
          /\ Len(url_sources[u]) >= 3
          /\ Cardinality(Range(url_sources[u])) >= 2
          /\ u \in broken_urls
          /\ attempts[u] = 1

\* C8: a failed check is a finding for its URL only: no failure leaves
\* the task, the run is not aborted by one, and every canonical URL is
\* checked and reported whatever happened to the others.
C8_FailureStaysInsideItsTask ==
    /\ \A i \in DOMAIN result : ~result[i].raised
    /\ pc = "traceback" => checked = 0
    /\ pc = "exit_report" =>
          /\ checked = Cardinality(all_urls)
          /\ \A u \in all_urls :
                /\ \E i \in yielded : result[i].url = u
                /\ Cardinality({k \in 1..Len(broken_links) :
                                  broken_links[k].url = u})
                   = IF unreachable(network[u]) THEN 1 ELSE 0

\* an unexpected exception in one task, another task that succeeded, both
\* reported
C8_Witness ==
    /\ pc = "exit_report"
    /\ \E u \in all_urls : network[u] = Raises("ValueError", 0) /\ u \in broken_urls
    /\ \E u \in all_urls : network[u] = Response(200) /\ u \notin broken_urls
    /\ checked = Cardinality(all_urls)

\* C9: check_url makes a success of a response with status in [200, 400),
\* a failure with the numeric code of an HTTP error, and a failure with
\* status 0 of a connection, DNS or timeout failure and of any other
\* exception; a URL is reported broken iff its result is not a success.
C9_CheckUrlClassification ==
    /\ \A i \in DOMAIN task :
          task[i] = "finished" =>
             LET o == network[urls_list[i]]
                 r == result[i]
             IN /\ ~r.raised
                /\ o.kind = "response" =>
                      /\ r.success = (o.status \in 200..399)
                      /\ r.status = o.status
                /\ (o.kind = "raise" /\ o.exc = "HTTPError") =>
                      ~r.success /\ r.status = o.status
                /\ (o.kind = "raise" /\ o.exc # "HTTPError") =>
                      ~r.success /\ r.status = 0
    /\ pc = "exit_report" =>
          broken_urls = {result[i].url : i \in {i \in yielded : ~result[i].success}}

\* a run that met an HTTP error, a connection failure and a response
C9_Witness ==
    /\ pc = "exit_report"
    /\ \E i \in yielded :
          network[urls_list[i]] = Raises("HTTPError", 404) /\ result[i].status = 404
    /\ \E i \in yielded :
          network[urls_list[i]] = Raises("URLError", 0) /\ result[i].status = 0
    /\ \E i \in yielded :
          network[urls_list[i]] = Response(399) /\ result[i].success

malformed_replacements ==
    \/ environ.URL_REPLACEMENTS.kind = "malformed"
    \/ args.replacements.kind = "malformed"

\* C10: with malformed replacement JSON in the environment variable or on
\* the command line the process exits 1 before the directory is walked,
\* before a file is opened and before a URL is checked, with no scan
\* output.
C10_MalformedJsonExitsBeforeScan ==
    (malformed_replacements /\ pc # "main") =>
        /\ pc = "exit_config"
        /\ exit_code = 1
        /\ ~walked
        /\ opened = <<>>
        /\ files = <<>>
        /\ all_urls = {}
        /\ attempts = <<>>
        /\ stdout = <<>>

\* the exit on a malformed --replacements, after a well-formed
\* URL_REPLACEMENTS, in a directory that exists and holds files
C10_Witness ==
    /\ pc = "exit_config"
    /\ args.replacements.kind = "malformed"
    /\ environ.URL_REPLACEMENTS.kind = "object"
    /\ tree.exists
    /\ Len(tree.files) = MaxFiles
    /\ exit_code = 1

\* C11: when the root directory does not exist, run returns 1 and the
\* process exits with it, having walked no directory, opened no file,
\* extracted no URL and made no network check.
C11_MissingDirectoryExitsBeforeScan ==
    (~tree.exists /\ pc \notin {"main", "run", "exit_config", "traceback"}) =>
        /\ pc = "exit_nodir"
        /\ exit_code = 1
        /\ ~walked
        /\ opened = <<>>
        /\ files = <<>>
        /\ all_urls = {}
        /\ url_sources = <<>>
        /\ urls_list = <<>>
        /\ attempts = <<>>
        /\ "Error: Directory" \in Range(stderr)

\* the exit for a missing directory, with a configuration that parsed and
\* a tree description whose files would have been scanned
C11_Witness ==
    /\ pc = "exit_nodir"
    /\ ~tree.exists
    /\ exit_code = 1
    /\ environ.URL_REPLACEMENTS.kind = "object"
    /\ config.workers >= 1
    /\ \E i \in 1..Len(tree.files) : is_opened(tree.files[i], config)

\* the keys of the object a replacement text holds (none when the text is
\* not given or blank)
keys_of(text) == {text.pairs[i].from : i \in 1..Len(text.pairs)}

\* the value the object of the text has for key k: json.loads keeps the
\* last value written for a key
value_of(text, k) ==
    text.pairs[CHOOSE i \in 1..Len(text.pairs) :
                  /\ text.pairs[i].from = k
                  /\ \A j \in (i + 1)..Len(text.pairs) : text.pairs[j].from # k].to

\* C12: the replacement mapping of the configuration holds exactly the
\* keys of the environment mapping and of the command-line mapping, each
\* once; a key of the command-line mapping has the command-line value,
\* whether or not the environment has it too, and any other key has the
\* environment value.
C12_CommandLineWinsReplacementMerge ==
    pc \notin {"main", "exit_config", "traceback"} =>
        /\ {config.replacements[i].from : i \in 1..Len(config.replacements)}
              = keys_of(environ.URL_REPLACEMENTS) \cup keys_of(args.replacements)
        /\ \A i, j \in 1..Len(config.replacements) :
              config.replacements[i].from = config.replacements[j].from => i = j
        /\ \A i \in 1..Len(config.replacements) :
              config.replacements[i].to =
                 IF config.replacements[i].from \in keys_of(args.replacements)
                 THEN value_of(args.replacements, config.replacements[i].from)
                 ELSE value_of(environ.URL_REPLACEMENTS,
                               config.replacements[i].from)

\* a configuration built from two mappings that disagree on one key and
\* have one key each that the other lacks
C12_Witness ==
    /\ pc = "run"
    /\ \E k \in keys_of(environ.URL_REPLACEMENTS) \cap keys_of(args.replacements) :
          value_of(environ.URL_REPLACEMENTS, k) # value_of(args.replacements, k)
    /\ keys_of(environ.URL_REPLACEMENTS) \ keys_of(args.replacements) # {}
    /\ keys_of(args.replacements) \ keys_of(environ.URL_REPLACEMENTS) # {}
    /\ Len(config.replacements) = 3

\* the non-empty trimmed entries of a comma-separated list, none when
\* the list is not given
trimmed_entries(value) ==
    IF value = None THEN {}
    ELSE {strip(e) : e \in Range(split_commas(value))} \ {<<>>}

\* C13: each skip set of the configuration is the union of the non-empty
\* trimmed entries of its environment variable and of its command-line
\* option, lowercased for skip-domains; every entry of the environment
\* is in the set whatever the command line gives.
C13_SkipListsAreUnions ==
    pc \notin {"main", "exit_config", "traceback"} =>
        /\ config.skip_domains =
              {lower(e) : e \in trimmed_entries(environ.SKIP_DOMAINS)
                                \cup trimmed_entries(args.skip_domains)}
        /\ config.skip_urls =
              trimmed_entries(environ.SKIP_URLS) \cup trimmed_entries(args.skip_urls)
        /\ config.skip_files =
              trimmed_entries(environ.SKIP_FILES) \cup trimmed_entries(args.skip_files)
        /\ trimmed_entries(environ.SKIP_URLS) \subseteq config.skip_urls
        /\ trimmed_entries(environ.SKIP_FILES) \subseteq config.skip_files

\* a configuration whose three skip lists are given in both sources, each
\* source bringing an entry that the other lacks
C13_Witness ==
    /\ pc = "run"
    /\ \A given \in { Given(environ.SKIP_DOMAINS, args.skip_domains),
                       Given(environ.SKIP_URLS, args.skip_urls),
                       Given(environ.SKIP_FILES, args.skip_files) } :
          /\ trimmed_entries(given.env) \ trimmed_entries(given.arg) # {}
          /\ trimmed_entries(given.arg) \ trimmed_entries(given.env) # {}
    /\ Cardinality(config.skip_domains) = 3
    /\ Cardinality(config.skip_urls) = 3
    /\ Cardinality(config.skip_files) = 3

\* the non-empty trimmed entries of a comma-separated list, in order
entry_list(value) ==
    LET parts == split_commas(value)
        kept == {i \in 1..Len(parts) : strip(parts[i]) # <<>>}
        nth(n) == CHOOSE i \in kept : Cardinality({k \in kept : k <= i}) = n
    IN [n \in 1..Cardinality(kept) |-> strip(parts[nth(n)])]

\* the three pattern lists: what the configuration holds, the two
\* sources and the built-in default
pattern_lists ==
    { [list |-> config.markdown_patterns, env |-> environ.MARKDOWN_PATTERNS,
       arg |-> args.markdown_patterns, default |-> <<s_md, s_markdown>>],
      [list |-> config.html_patterns, env |-> environ.HTML_PATTERNS,
       arg |-> args.html_patterns, default |-> <<s_html, s_htm>>],
      [list |-> config.file_patterns, env |-> environ.FILE_PATTERNS,
       arg |-> args.file_patterns, default |-> <<>>] }

\* C14 as stated: each pattern list is the command-line list whenever the
\* option is present on the command line, else the environment list
\* whenever the variable is set, else the default.
C14_PresentSourceReplacesLowerOnes ==
    pc \notin {"main", "exit_config", "traceback"} =>
        \A p \in pattern_lists :
            p.list = IF p.arg # None THEN entry_list(p.arg)
                     ELSE IF p.env # None THEN entry_list(p.env)
                     ELSE p.default

\* C14 as amended: each pattern list is the command-line list when the
\* option has a non-empty value, else the environment list when the
\* variable has a value that is not blank, else the default; the list is
\* never made of entries of two sources.
C14_NonEmptySourceReplacesLowerOnes ==
    pc \notin {"main", "exit_config", "traceback"} =>
        \A p \in pattern_lists :
            p.list = IF p.arg \notin {None, <<>>} THEN entry_list(p.arg)
                     ELSE IF p.env # None /\ strip(p.env) # <<>>
                     THEN entry_list(p.env)
                     ELSE p.default

\* a configuration in which one list has both sources given with
\* different entries, one has only the environment variable, and one has
\* a blank variable and an empty option and so keeps a non-empty default
C14_Witness ==
    /\ pc = "run"
    /\ \E p \in pattern_lists :
          /\ p.arg \notin {None, <<>>} /\ p.env # None /\ strip(p.env) # <<>>
          /\ Range(entry_list(p.env)) \cap Range(entry_list(p.arg)) = {}
          /\ p.list = entry_list(p.arg)
    /\ \E p \in pattern_lists :
          p.arg = None /\ p.env # None /\ p.list = entry_list(p.env)
                       /\ p.list # p.default
    /\ \E p \in pattern_lists :
          p.arg = <<>> /\ p.env = <<" ">> /\ p.list = p.default /\ p.list # <<>>

\* the filename ends with an entry of the pattern list
matches(filename, patterns) == \E p \in Range(patterns) : endswith(filename, p)

\* the basename of a scanned file
basename(file) == file.path[2]

\* C15: every file that scan_directory returns has one category, the
\* first of markdown, html, generic whose pattern list holds a suffix of
\* its name, and no path is returned twice.
C15_FirstMatchingCategory ==
    pc \in {"scanned", "extracted"} =>
        /\ \A i \in 1..Len(files) :
              /\ files[i].file_type \in {"markdown", "html", "file"}
              /\ files[i].file_type = "markdown"
                    <=> matches(basename(files[i]), config.markdown_patterns)
              /\ files[i].file_type = "html"
                    <=> /\ ~matches(basename(files[i]), config.markdown_patterns)
                        /\ matches(basename(files[i]), config.html_patterns)
              /\ files[i].file_type = "file"
                    <=> /\ ~matches(basename(files[i]), config.markdown_patterns)
                        /\ ~matches(basename(files[i]), config.html_patterns)
                        /\ matches(basename(files[i]), config.file_patterns)
        /\ \A i, j \in 1..Len(files) : files[i].path = files[j].path => i = j

\* a scan that returned a file matching all three lists as markdown and
\* a file matching the html and the generic list as html
C15_Witness ==
    /\ pc = "scanned"
    /\ \E i \in 1..Len(files) :
          /\ matches(basename(files[i]), config.markdown_patterns)
          /\ matches(basename(files[i]), config.html_patterns)
          /\ matches(basename(files[i]), config.file_patterns)
          /\ files[i].file_type = "markdown"
    /\ \E i \in 1..Len(files) :
          /\ ~matches(basename(files[i]), config.markdown_patterns)
          /\ matches(basename(files[i]), config.html_patterns)
          /\ matches(basename(files[i]), config.file_patterns)
          /\ files[i].file_type = "html"

\* the names of the directories between the root and a returned file
directories(path) == Range(path[1])

\* C16: no file that scan_directory returns, and none that it opens, has
\* on its path below the root a directory named as one of the excluded
\* names, at whatever depth.
C16_ExcludedDirectoriesPruned ==
    pc \in {"scanned", "extracted"} =>
        /\ \A i \in 1..Len(files) :
              directories(files[i].path) \cap EXCLUDE_PATTERNS = {}
        /\ \A i \in 1..Len(opened) :
              directories(opened[i]) \cap EXCLUDE_PATTERNS = {}

\* a scan of a tree that holds a readable file with a matching name two
\* levels down, in a directory `build` of a directory that is walked,
\* and that returned a file of that walked directory
C16_Witness ==
    /\ pc = "scanned"
    /\ \E i \in 1..Len(tree.files) :
          /\ Len(tree.files[i].dirs) = 2
          /\ tree.files[i].dirs[1] \notin EXCLUDE_PATTERNS
          /\ tree.files[i].dirs[2] \in EXCLUDE_PATTERNS
          /\ tree.files[i].readable
          /\ matches(tree.files[i].name, config.markdown_patterns)
          /\ tree.files[i].name \notin config.skip_files
          /\ \E j \in 1..Len(files) :
                files[j].path[1] = <<tree.files[i].dirs[1]>>

\* the path of a file of the tree, as scan_directory builds it
path_of(f) == <<f.dirs, f.name>>

\* the paths that the provenance lists hold
source_paths == UNION {Range(url_sources[u]) : u \in DOMAIN url_sources}

\* C17: a returned file has a basename that is not in skip-files and
\* that ends with an entry of one of the three pattern lists; a file of
\* the tree whose basename is in skip-files, in whatever directory and
\* whatever it matches, is not returned, not opened and in no provenance
\* list.
C17_SkippedAndUnmatchedFilesExcluded ==
    pc \in {"scanned", "extracted"} =>
        /\ \A i \in 1..Len(files) :
              /\ basename(files[i]) \notin config.skip_files
              /\ \/ matches(basename(files[i]), config.markdown_patterns)
                 \/ matches(basename(files[i]), config.html_patterns)
                 \/ matches(basename(files[i]), config.file_patterns)
        /\ \A i \in 1..Len(tree.files) :
              tree.files[i].name \in config.skip_files =>
                 /\ \A j \in 1..Len(files) : files[j].path # path_of(tree.files[i])
                 /\ path_of(tree.files[i]) \notin Range(opened)
                 /\ path_of(tree.files[i]) \notin source_paths

\* the end of the extraction for a tree with a readable file in a
\* sub-directory that is walked, whose name is in skip-files and matches
\* two pattern lists and whose content holds an eligible URL, next to a
\* file that was returned and brought a URL
C17_Witness ==
    /\ pc = "extracted"
    /\ source_paths # {}
    /\ \E i \in 1..Len(tree.files) :
          /\ tree.files[i].name \in config.skip_files
          /\ tree.files[i].dirs # <<>>
          /\ ~pruned(tree.files[i])
          /\ tree.files[i].readable
          /\ matches(tree.files[i].name, config.markdown_patterns)
          /\ matches(tree.files[i].name, config.html_patterns)
          /\ \E k \in 1..Len(tree.files[i].content) :
                is_valid_url(tree.files[i].content[k].url, config)

\* the file is one that the scan is to read: in no excluded directory,
\* with a name that matches a pattern list and is not in skip-files
to_be_read(f) ==
    /\ Range(f.dirs) \cap EXCLUDE_PATTERNS = {}
    /\ \/ matches(f.name, config.markdown_patterns)
       \/ matches(f.name, config.html_patterns)
       \/ matches(f.name, config.file_patterns)
    /\ f.name \notin config.skip_files

\* C18: after the scan the run goes on; a file that could not be read is
\* not in the result and in no provenance list, one warning was printed
\* for each such file, and every file to be read that could be read is
\* in the result with its content.
C18_ReadFailureIsRecovered ==
    pc \in {"scanned", "extracted"} =>
        /\ exit_code = -1
        /\ \A i \in 1..Len(tree.files) :
              to_be_read(tree.files[i]) =>
                 IF tree.files[i].readable
                 THEN \E j \in 1..Len(files) :
                         /\ files[j].path = path_of(tree.files[i])
                         /\ files[j].content = tree.files[i].content
                 ELSE /\ \A j \in 1..Len(files) :
                            files[j].path # path_of(tree.files[i])
                      /\ path_of(tree.files[i]) \notin source_paths
        /\ Cardinality({k \in 1..Len(stderr) : stderr[k] = "Warning"})
              = Cardinality({i \in 1..Len(tree.files) :
                               to_be_read(tree.files[i]) /\ ~tree.files[i].readable})

\* the end of the extraction after a scan that failed to read a file
\* holding an eligible URL and then read a later file, which brought a
\* URL
C18_Witness ==
    /\ pc = "extracted"
    /\ "Warning" \in Range(stderr)
    /\ \E i, j \in 1..Len(tree.files) :
          /\ i < j
          /\ to_be_read(tree.files[i]) /\ ~tree.files[i].readable
          /\ \E k \in 1..Len(tree.files[i].content) :
                is_valid_url(tree.files[i].content[k].url, config)
          /\ to_be_read(tree.files[j]) /\ tree.files[j].readable
          /\ path_of(tree.files[j]) \in source_paths

\* the conditions of the validity filter that do not depend on the case
\* of the placeholder test
other_conditions(url) ==
    /\ startswith(url, s_http) \/ startswith(url, s_https)
    /\ \A local \in {s_localhost, s_loopback, s_anyaddr} :
          ~contains(lower(url), local)
    /\ \A skip \in config.skip_domains : ~contains(get_domain(url), skip)
    /\ \A skip_url \in config.skip_urls : ~contains(url, skip_url)

\* C19 as stated: is_valid_url(url) is true iff url starts with http://
\* or https://, contains none of localhost, 127.0.0.1, 0.0.0.0 in any
\* case, contains neither example.com nor example.org, has no
\* skip-domain entry in its extracted domain and no skip-url entry in
\* itself.
C19_ValidIffNoPlaceholderAsWritten ==
    pc = "extracted" =>
        \A occs \in {raw_occurrences(files)} :
        \A i \in 1..Len(occs) :
           is_valid_url(occs[i].url, config)
              <=> /\ other_conditions(occs[i].url)
                  /\ \A placeholder \in {s_example_com, s_example_org} :
                        ~contains(occs[i].url, placeholder)

\* C19 as amended: the same with the placeholder test made in any case,
\* as the localhost test is; and with no replacement configured the
\* canonical set is the set of the raw URLs that meet the conditions.
C19_ValidIffNoPlaceholderInAnyCase ==
    pc = "extracted" =>
        \A occs \in {raw_occurrences(files)} :
        \A meeting \in {{i \in 1..Len(occs) :
                            /\ other_conditions(occs[i].url)
                            /\ \A placeholder \in {s_example_com, s_example_org} :
                                  ~contains(lower(occs[i].url), placeholder)}} :
           /\ \A i \in 1..Len(occs) :
                 is_valid_url(occs[i].url, config) <=> i \in meeting
           /\ config.replacements = <<>> =>
                 all_urls = {occs[i].url : i \in meeting}

\* an extraction without replacements that kept a URL, dropped one only
\* for its skipped domain and dropped one only for a placeholder domain
\* written with a capital
C19_Witness ==
    /\ pc = "extracted"
    /\ config.replacements = <<>>
    /\ all_urls # {}
    /\ \E i \in 1..Len(files) : \E k \in 1..Len(files[i].content) :
          /\ files[i].content[k].url \in Range(extracted_urls(files[i]))
          /\ files[i].content[k].url \notin all_urls
          /\ \E skip \in config.skip_domains :
                contains(get_domain(files[i].content[k].url), skip)
          /\ \A skip_url \in config.skip_urls :
                ~contains(files[i].content[k].url, skip_url)
    /\ \E i \in 1..Len(files) :
          /\ url_Example \in Range(extracted_urls(files[i]))
          /\ other_conditions(url_Example)
          /\ url_Example \notin all_urls

\* how many entries of a provenance list are the path
entries_for(sources, path) ==
    Cardinality({k \in 1..Len(sources) : sources[k] = path})

\* C20: after extract_all_urls every canonical URL is one key of the
\* provenance mapping, and its list is at least as long as the number of
\* eligible raw occurrences that rewrite to it, file by file: a file is
\* listed as many times as it holds such occurrences, whichever raw URLs
\* they are.
C20_ProvenanceCountsEveryOccurrence ==
    pc = "extracted" =>
        /\ DOMAIN url_sources = all_urls
        /\ \A occs \in {rewritten(raw_occurrences(files))} :
           \A u \in all_urls :
           \A from \in {{i \in 1..Len(occs) : occs[i].replaced = u}} :
              /\ Len(url_sources[u]) >= Cardinality(from)
              /\ \A i \in from :
                    entries_for(url_sources[u], occs[i].path)
                       >= Cardinality({k \in from : occs[k].path = occs[i].path})

\* an extraction in which two different raw URLs of two different files
\* were rewritten to the same canonical URL, one of the files holding
\* more than one such occurrence
C20_Witness ==
    /\ pc = "extracted"
    /\ \E u \in all_urls :
          /\ \E i, j \in eligible_occurrences :
                /\ raw_occurrences(files)[i].url # raw_occurrences(files)[j].url
                /\ raw_occurrences(files)[i].path # raw_occurrences(files)[j].path
                /\ apply_replacements(raw_occurrences(files)[i].url, config) = u
                /\ apply_replacements(raw_occurrences(files)[j].url, config) = u
          /\ \E k \in 1..Len(url_sources[u]) :
                entries_for(url_sources[u], url_sources[u][k]) >= 2
          /\ Cardinality(Range(url_sources[u])) >= 2

\* C21: for each broken canonical URL the "found in" block lists at most
\* five file paths and none of them twice; the count printed after the
\* block is the number of files of the URL's provenance that the block
\* did not list.
C21_AtMostFiveDistinctPathsListed ==
    pc = "exit_report" =>
        \A k \in 1..Len(report) :
           \A shown \in {report[k].found_in} :
              /\ Len(shown) <= SHOWN_SOURCES
              /\ \A i, j \in 1..Len(shown) : shown[i] = shown[j] => i = j
              /\ report[k].more =
                    Cardinality(Range(url_sources[report[k].url]) \ Range(shown))

\* the elements of a sequence in the order of their first occurrence
RECURSIVE first_seen(_)
first_seen(q) ==
    IF q = <<>> THEN <<>>
    ELSE LET shorter == first_seen(SubSeq(q, 1, Len(q) - 1))
         IN IF q[Len(q)] \in Range(shorter) THEN shorter
            ELSE Append(shorter, q[Len(q)])

\* the paths of the scanned files that hold an eligible raw URL whose
\* rewritten form is the URL, in the order of the scan
referencing_files(url) ==
    LET refers(f) ==
            \E raw \in Range(extracted_urls(f)) :
               is_valid_url(raw, config) /\ apply_replacements(raw, config) = url
        hits == SelectSeq(files, refers)
    IN [i \in 1..Len(hits) |-> hits[i].path]

\* C22: when a broken canonical URL is referenced from at most five
\* files, its provenance holds every one of them and the "found in" block
\* of the report shows every one of them, in the order in which the scan
\* met the files, however many times a file references the URL.
C22_FoundInShowsEveryReferencingFile ==
    pc = "exit_report" =>
        \A k \in 1..Len(report) :
           \A from \in {referencing_files(report[k].url)} :
              Len(from) <= SHOWN_SOURCES =>
                 /\ Range(url_sources[report[k].url]) = Range(from)
                 /\ first_seen(report[k].found_in) = from

\* C23: as long as no init or init_async call has completed successfully,
\* a call of eval or eval_async raises the not-initialized RuntimeError
\* and the native engine evaluates nothing, and is_ready returns False;
\* once an init has completed successfully, is_ready returns what the
\* native engine says of its readiness and eval and eval_async no longer
\* raise the not-initialized error.
C23_NotInitializedUntilInitCompletes ==
    [][Len(calls') > Len(calls) =>
          \A c \in {calls'[Len(calls')]} :
             /\ (initialized = 0 /\ c.op \in {"eval", "eval_async"}) =>
                   /\ c.raised = "RuntimeError: not initialized"
                   /\ evaluations' = evaluations
                   /\ evaluations = 0
             /\ (initialized = 0 /\ c.op = "is_ready") => c.value = "False"
             /\ (initialized > 0 /\ c.op = "is_ready") =>
                   (c.value = "True" <=> engine[2])
             /\ (initialized > 0 /\ c.op \in {"eval", "eval_async"}) =>
                   c.raised # "RuntimeError: not initialized"]_vars

\* eval and eval_async were refused and is_ready said False, then an
\* init_async completed and is_ready said True of an engine that is ready
C23_Witness ==
    /\ Len(calls) = 4
    /\ calls[1] = Call("eval_async", "RuntimeError: not initialized", "None")
    /\ calls[2] = Call("is_ready", "none", "False")
    /\ calls[3] = Call("init_async", "none", "None")
    /\ calls[4] = Call("is_ready", "none", "True")
    /\ initialized = 1
    /\ evaluations = 0

\* the text of a URL after the scheme prefix, up to the first "/"
authority(url) ==
    split_head(IF contains(url, s_scheme_sep)
               THEN split_tail(url, s_scheme_sep) ELSE url, <<"/">>)

\* an authority with a trailing ":port" taken off, and nothing else
without_port(a) ==
    LET colons == {k \in 1..Len(a) : a[k] = ":"}
        last == CHOOSE k \in colons : \A j \in colons : j <= k
        digits == {"0", "1", "2", "3", "4", "5", "6", "7", "8", "9"}
    IN IF colons # {} /\ \A j \in (last + 1)..Len(a) : a[j] \in digits
       THEN SubSeq(a, 1, last - 1) ELSE a

\* C24: get_domain returns the authority of the URL in lower case with
\* only a trailing ":port" removed, also when the authority holds a ":"
\* before the host (user:password@host); the skip-domain test therefore
\* sees the host: a raw URL whose host holds a skip-domain entry
\* contributes nothing to the canonical set.
C24_DomainIsHostWithoutPort ==
    pc = "extracted" =>
        \A i \in 1..Len(files) :
           \A url \in Range(extracted_urls(files[i])) :
              \A host \in {lower(without_port(authority(url)))} :
                 /\ get_domain(url) = host
                 /\ (\E skip \in config.skip_domains : contains(host, skip))
                       => ~is_valid_url(url, config)

\* C25: in every state of the checking phase, the number of check tasks
\* whose request has started and not yet returned is at most the
\* configured worker count.
C25_RunningTasksWithinWorkerCount ==
    pc \in {"submit", "collect"} =>
        Cardinality(running_tasks) <= config.workers

\* every worker of a pool of two is inside a request while another task
\* waits in the queue
C25_Witness ==
    /\ pc \in {"submit", "collect"}
    /\ config.workers = 2
    /\ Cardinality(running_tasks) = config.workers
    /\ \E i \in DOMAIN task : task[i] = "queued"

\* what a step that starts inside check_urls_parallel may change
checking_phase_step ==
    /\ UNCHANGED << config, all_urls, url_sources >>
    /\ (pc' \in {"submit", "collect"}) =>
          /\ UNCHANGED << world, scan_state, extract_state, network,
                          urls_list, report, stderr, exit_code >>
          /\ checked' \in {checked, checked + 1}
          /\ \/ broken_links' = broken_links
             \/ /\ Len(broken_links') = Len(broken_links) + 1
                /\ SubSeq(broken_links', 1, Len(broken_links)) = broken_links
                /\ pc = "collect"
                /\ checked' = checked + 1
                /\ \E i \in DOMAIN task :
                      i \notin yielded /\ yielded' = yielded \cup {i}
          /\ (task' # task) => UNCHANGED << broken_links, checked, yielded >>

\* C26: from the first submission until check_urls_parallel returns, the
\* configuration, the canonical URL set and the provenance map do not
\* change; a step inside the phase changes nothing but the result
\* collection, the checked counter, the futures (their status, their
\* result, whether as_completed handed them out) and the progress line
\* on the output; the result collection only grows at its end, and only
\* in a step of the loop of the coordinating thread, never in a step of a
\* task.
C26_CheckingPhaseFrame ==
    [][(pc \in {"submit", "collect"}) => checking_phase_step]_vars

\* the loop has recorded a broken link while another task is still
\* inside its request
C26_Witness ==
    /\ pc = "collect"
    /\ Len(broken_links) >= 1
    /\ checked >= 1
    /\ running_tasks # {}
    /\ url_sources # <<>>

\* the progress lines printed so far, one per consumed result
progress_lines == Cardinality({k \in 1..Len(stdout) : stdout[k] = "Checking URLs"})

\* C27: if every request returns, then for every canonical URL set and
\* every pool size >= 1 the checking phase, once begun, ends: the run
\* reaches its report with the checked counter equal to the number of
\* canonical URLs, every task finished and every result consumed once.
C27_CheckingPhaseTerminates ==
    (pc \in {"submit", "collect"}) ~>
        (/\ pc = "exit_report"
         /\ checked = Cardinality(all_urls)
         /\ Len(urls_list) = Cardinality(all_urls)
         /\ \A i \in DOMAIN task : task[i] = "finished"
         /\ yielded = DOMAIN task
         /\ progress_lines = Cardinality(all_urls))

\* a pool of one thread has served three canonical URLs and the run has
\* reported
C27_Witness ==
    /\ pc = "exit_report"
    /\ config.workers = 1
    /\ Cardinality(all_urls) = 3
    /\ checked = 3
    /\ \A i \in DOMAIN task : task[i] = "finished"

\* C28: after extract_all_urls the keys of the provenance map are the
\* canonical URLs and every provenance list is non-empty; the lookup
\* url_sources[url] for a failed URL in check_urls_parallel therefore
\* always finds an entry, which the broken link carries.
C28_ProvenanceKeysAreCanonicalUrls ==
    /\ pc \notin {"main", "run", "scanned", "exit_config", "exit_nodir"} =>
          /\ DOMAIN url_sources = all_urls
          /\ \A u \in all_urls : url_sources[u] # <<>>
    /\ \A i \in DOMAIN result :
          task[i] = "finished" => result[i].url \in DOMAIN url_sources
    /\ \A k \in 1..Len(broken_links) :
          /\ broken_links[k].url \in DOMAIN url_sources
          /\ broken_links[k].source_files = url_sources[broken_links[k].url]
          /\ broken_links[k].source_files # <<>>

\* the loop looked up the provenance of a failed URL that two files
\* reference
C28_Witness ==
    /\ pc = "collect"
    /\ \E k \in 1..Len(broken_links) :
          Cardinality(Range(broken_links[k].source_files)) >= 2
    /\ Cardinality(all_urls) >= 2

\* C29: the tasks are submitted in ascending order of canonical URL,
\* whatever the order in which the files were scanned and the URLs
\* extracted: the list of submissions holds every canonical URL once,
\* each smaller than the next, and a task is submitted only after every
\* task before it in the list; with a pool of one worker a request is
\* issued only after the requests of all smaller URLs have returned.
C29_SubmissionInSortedOrder ==
    pc \in {"submit", "collect", "exit_report"} =>
        /\ Range(urls_list) = all_urls
        /\ \A i, j \in 1..Len(urls_list) :
              i < j => str_less(urls_list[i], urls_list[j])
        /\ \A i, j \in DOMAIN task :
              (i < j /\ task[j] # "new") => task[i] # "new"
        /\ config.workers = 1 =>
              \A i, j \in DOMAIN task :
                 (i < j /\ task[j] \in {"running", "finished"})
                    => task[i] = "finished"

\* the first URL extracted is not the smallest; the pool of one worker
\* has finished the smallest URL, is inside the request of the second and
\* the third waits
C29_Witness ==
    /\ pc = "collect"
    /\ config.workers = 1
    /\ Len(urls_list) = 3
    /\ str_less(urls_list[1], apply_replacements(extracted_urls(files[1])[1], config))
    /\ is_valid_url(extracted_urls(files[1])[1], config)
    /\ task = <<"finished", "running", "queued">>

\* the keys of the object of a text, in the order in which the text
\* first writes them
json_keys(text) == first_seen([i \in 1..Len(text.pairs) |-> text.pairs[i].from])

\* the environment keys in their JSON order, then the command-line keys
\* that the environment does not have, in their JSON order; each with the
\* command-line value if the command line has the key
pairs_in_claimed_order ==
    LET only_arg(k) == k \notin keys_of(environ.URL_REPLACEMENTS)
        order == json_keys(environ.URL_REPLACEMENTS)
                 \o SelectSeq(json_keys(args.replacements), only_arg)
    IN [i \in 1..Len(order) |->
          Pair(order[i],
               IF order[i] \in keys_of(args.replacements)
               THEN value_of(args.replacements, order[i])
               ELSE value_of(environ.URL_REPLACEMENTS, order[i]))]

\* C30: the replacement pairs are applied in this order: the keys of the
\* environment mapping in their JSON order, then the command-line keys
\* that are not in the environment mapping, in their JSON order; a key
\* given in both has the command-line value at the place it has in the
\* environment mapping. The canonical URLs are the eligible raw URLs
\* rewritten by the pairs one after the other in that order.
C30_ReplacementApplicationOrder ==
    pc \notin {"main", "exit_config", "traceback"} =>
        \A pairs \in {pairs_in_claimed_order} :
           /\ config.replacements = pairs
           /\ pc = "extracted" =>
                 all_urls =
                    {chars(sweep(tagged(occ.url, 0), pairs,
                                 [j \in 1..Len(pairs) |-> j], 1)) :
                       occ \in {o \in Range(raw_occurrences(files)) :
                                  is_valid_url(o.url, config)}}

\* both mappings have the key a.io, first in the environment and last
\* on the command line, and the order decides what a URL of a scanned
\* file becomes
C30_Witness ==
    /\ pc = "extracted"
    /\ environ.URL_REPLACEMENTS.pairs = <<Pair(s_a_io, s_b_io), Pair(s_b_io, s_c_io)>>
    /\ args.replacements.pairs = <<Pair(s_c_io, s_a_io), Pair(s_a_io, s_c_io)>>
    /\ config.replacements =
          <<Pair(s_a_io, s_c_io), Pair(s_b_io, s_c_io), Pair(s_c_io, s_a_io)>>
    /\ \E i \in 1..Len(files) : url_a \in Range(extracted_urls(files[i]))
    /\ all_urls = {url_a}

====
